---- MODULE Spec2Model ----
(***************************************************************************)
(* The knowledge-intelligence engine of assistant-tools: text utilities,  *)
(* TFIDFVectorizer, SemanticSearch, TrendAnalyzer, ConnectionDiscovery,   *)
(* InsightGenerator and QAEngine.                                         *)
(*                                                                         *)
(* Conventions of the model.                                              *)
(*  - A JavaScript string is a TLC string; a character is a string of      *)
(*    length one.  The module text is ASCII, so the CJK ideographs         *)
(*    (U+4E00..U+9FFF) are stood for by the characters of ChineseChars.    *)
(*  - A JavaScript number that is not an integer is kept in thousandths    *)
(*    (Milli == 1000): 1405 stands for 1.405.  NaN is the value NaN.       *)
(*  - A JavaScript object used as a map is a function on a finite set of   *)
(*    keys; an array is a sequence; a Set is a sequence without repeats    *)
(*    (its insertion order) where the order is read, else a set.           *)
(*  - A timestamp is a whole number of days; Now is the day of the call.   *)
(***************************************************************************)
EXTENDS Integers, Sequences, FiniteSets, TLC

VARIABLES
  documents,    \* TFIDFVectorizer.documents
  vocabulary,   \* TFIDFVectorizer.vocabulary
  idf,          \* TFIDFVectorizer.idf
  vectors,      \* TFIDFVectorizer.vectors
  fitted,       \* TFIDFVectorizer.fitted
  ssArticles,   \* SemanticSearch.articles (the Map, as id -> article)
  qaArticles,   \* QAEngine.articles
  corpus,       \* the article array the caller handed to setArticles
  graph,        \* ConnectionDiscovery.connectionGraph
  index,        \* VectorStore.index.documents (the ids it holds)
  loaded,       \* VectorStore.loaded
  indexFile,    \* the documents of the saved index file (INDEX_FILE)
  calls,        \* the VectorStore calls started, each with where it stands
  last          \* the last call made and what it returned or threw

\* the state of the VectorStore and of the calls running on it
storeVars == <<index, loaded, indexFile, calls>>

vars == <<documents, vocabulary, idf, vectors, fitted, ssArticles, qaArticles,
          corpus, graph, index, loaded, indexFile, calls, last>>

----------------------------------------------------------------------------
(* Generic helpers *)

\* the unit of the fixed-point numbers: a thousandth
Milli == 10 * 100

\* the value that stands for NaN; no number of the model reaches it
NaN == 0 - (Milli * Milli)

IsNaN(x) == x = NaN

\* the value that stands for a value that is no number and is truthy: the
\* function Object, or the string that + 1 makes of it; arithmetic on it is NaN
NotNumeric == NaN - 1

\* x is a finite number
IsNumber(x) == x # NaN /\ x # NotNumeric

\* the day of the calls
Now == 100

\* x > y and x >= y of JavaScript numbers: false when either side is NaN
Gt(x, y) == ~IsNaN(x) /\ ~IsNaN(y) /\ x > y

Ge(x, y) == ~IsNaN(x) /\ ~IsNaN(y) /\ x >= y

Range(s) == {s[i] : i \in 1..Len(s)}

Max2(a, b) == IF a >= b THEN a ELSE b

\* the sum and the greatest of f over the keys S (0 when S is empty)
SumSet(S, f) ==
  LET F[T \in SUBSET S] ==
        IF T = {} THEN 0
        ELSE LET x == CHOOSE y \in T : TRUE IN f[x] + F[T \ {x}]
  IN F[S]

MaxSet(S, f) ==
  LET F[T \in SUBSET S] ==
        IF T = {} THEN 0
        ELSE LET x == CHOOSE y \in T : TRUE IN Max2(f[x], F[T \ {x}])
  IN F[S]

\* floor of the square root, by bisection on 0..46340
FloorSqrt(n) ==
  LET B[lo \in 0..46340, hi \in 0..46340] ==
        IF lo >= hi THEN lo
        ELSE LET mid == (lo + hi + 1) \div 2
             IN IF mid * mid <= n THEN B[mid, hi] ELSE B[lo, mid - 1]
  IN B[0, 46340]

CeilSqrt(n) == LET r == FloorSqrt(n) IN IF r * r = n THEN r ELSE r + 1

CeilDiv(a, b) == (a + b - 1) \div b

\* the k-th smallest member of a set of integers, for k = 1..Cardinality(S)
Ascending(S) ==
  [k \in 1..Cardinality(S) |-> CHOOSE i \in S : Cardinality({j \in S : j <= i}) = k]

\* the distinct elements of a sequence, in order of first occurrence
Distinct(s) ==
  LET firsts == {i \in 1..Len(s) : \A j \in 1..(i - 1) : s[j] # s[i]}
      order == Ascending(firsts)
  IN [k \in 1..Len(order) |-> s[order[k]]]

Flatten(ss) ==
  LET F[i \in 0..Len(ss)] == IF i = 0 THEN <<>> ELSE F[i - 1] \o ss[i]
  IN F[Len(ss)]

\* Array.prototype.join
Join(parts, sep) ==
  LET F[i \in 0..Len(parts)] ==
        IF i = 0 THEN ""
        ELSE IF i = 1 THEN parts[1]
        ELSE F[i - 1] \o sep \o parts[i]
  IN F[Len(parts)]

\* Array.prototype.sort with a comparator, which is stable: insertion of each
\* element after the last one that is not after it.  Before(x, y) is cmp(x, y) < 0.
InsertSorted(sorted, x, Before(_, _)) ==
  LET stay == {i \in 1..Len(sorted) : ~Before(x, sorted[i])}
      p == IF stay = {} THEN 0 ELSE CHOOSE i \in stay : \A j \in stay : j <= i
  IN SubSeq(sorted, 1, p) \o <<x>> \o SubSeq(sorted, p + 1, Len(sorted))

StableSort(s, Before(_, _)) ==
  LET F[i \in 0..Len(s)] ==
        IF i = 0 THEN <<>> ELSE InsertSorted(F[i - 1], s[i], Before)
  IN F[Len(s)]

Take(s, k) == SubSeq(s, 1, IF k < Len(s) THEN k ELSE Len(s))

----------------------------------------------------------------------------
(* utils/text *)

LowerLetters == "abcdefghijklmnopqrstuvwxyz"

UpperLetters == "ABCDEFGHIJKLMNOPQRSTUVWXYZ"

Digits == "0123456789"

CharAt(s, i) == SubSeq(s, i, i)

\* the characters of a string
Chars(s) == {CharAt(s, i) : i \in 1..Len(s)}

\* the characters /[a-z]/ and /[0-9]/ match
LowerSet == Chars(LowerLetters)

DigitSet == Chars(Digits)

\* the lower-case letter of each upper-case letter
LowerOf ==
  [c \in Chars(UpperLetters) |->
     CharAt(LowerLetters, CHOOSE i \in 1..Len(UpperLetters) : CharAt(UpperLetters, i) = c)]

\* the characters that stand for CJK ideographs: "@" for U+7684 (a stopword),
\* "#" and "$" for two ideographs that are no stopwords
ChineseChars == {"@", "#", "$"}

CHINESE_STOPWORDS == {"@"}

\* the words of ENGLISH_STOPWORDS
ENGLISH_STOPWORDS ==
  {"the", "a", "an", "and", "or", "but", "in", "on", "at", "to", "for", "of",
   "with", "by", "from", "as", "is", "was", "are", "were", "been", "be", "have",
   "has", "had", "do", "does", "did", "will", "would", "could", "should", "may",
   "might", "must", "can", "this", "that", "these", "those", "it", "its", "they",
   "them", "their", "he", "she", "him", "her", "his", "we", "us", "our", "you",
   "your", "i", "me", "my", "not", "no", "if", "then", "than", "so", "such",
   "when", "where", "what", "which", "who", "whom", "how", "why", "all", "each",
   "every", "both", "few", "more", "most", "other", "some", "any", "only", "own",
   "same", "just", "also", "very", "even", "still", "about", "after", "before"}

isChinese(char) == char \in ChineseChars

toLowerChar(char) == IF char \in DOMAIN LowerOf THEN LowerOf[char] ELSE char

\* String.prototype.toLowerCase, character by character
toLowerCase(s) ==
  LET F[done \in STRING, i \in 1..(Len(s) + 1)] ==
        IF i > Len(s) THEN done ELSE F[done \o toLowerChar(CharAt(s, i)), i + 1]
  IN F["", 1]

\* one turn of the loop of tokenize: st holds tokens, currentToken, currentType
tokenizeStep(st, char) ==
  IF isChinese(char) THEN
    [tokens |-> Append(IF st.currentToken # "" /\ st.currentType # "chinese"
                       THEN Append(st.tokens, st.currentToken) ELSE st.tokens,
                       char),
     currentToken |-> "", currentType |-> "chinese"]
  ELSE IF char \in LowerSet THEN
    LET split == st.currentType # "english" /\ st.currentToken # ""
    IN [tokens |-> IF split THEN Append(st.tokens, st.currentToken) ELSE st.tokens,
        currentToken |-> (IF split THEN "" ELSE st.currentToken) \o char,
        currentType |-> "english"]
  ELSE IF char \in DigitSet THEN
    LET split == st.currentType # "number" /\ st.currentToken # ""
    IN [tokens |-> IF split THEN Append(st.tokens, st.currentToken) ELSE st.tokens,
        currentToken |-> (IF split THEN "" ELSE st.currentToken) \o char,
        currentType |-> "number"]
  ELSE
    [tokens |-> IF st.currentToken # "" THEN Append(st.tokens, st.currentToken)
                ELSE st.tokens,
     currentToken |-> "", currentType |-> "none"]

\* the values of the loop's variables
TokenizeStates == [tokens : Seq(STRING), currentToken : STRING, currentType : STRING]

\* the loop of tokenize over the lower-cased text
tokenizeLoop(lower) ==
  LET Loop[st \in TokenizeStates, i \in 1..(Len(lower) + 1)] ==
        IF i > Len(lower) THEN st
        ELSE Loop[tokenizeStep(st, CharAt(lower, i)), i + 1]
  IN Loop[[tokens |-> <<>>, currentToken |-> "", currentType |-> "none"], 1]

\* an end of tokenize that leaves the open token out
tokenizeEndOpen(st) == st.tokens

\* the push of the token still open when the loop ends
tokenizeEnd(st) ==
  IF st.currentToken # "" THEN Append(st.tokens, st.currentToken) ELSE st.tokens

tokenize(text) ==
  IF text = "" THEN <<>> ELSE tokenizeEnd(tokenizeLoop(toLowerCase(text)))

removeStopwords(tokens) ==
  SelectSeq(tokens, LAMBDA token :
    IF Len(token) = 1 /\ isChinese(CharAt(token, 1))
    THEN token \notin CHINESE_STOPWORDS
    ELSE token \notin ENGLISH_STOPWORDS /\ Len(token) > 1)

extractNgrams(tokens, n) ==
  [i \in 1..Max2(Len(tokens) - n + 1, 0) |-> Join(SubSeq(tokens, i, i + n - 1), "")]

\* the lower-case words that name a property every plain object {} inherits
\* from Object.prototype: obj[word] is a function, not undefined
ObjectPrototypeKeys == {"constructor"}

\* term -> count, on the set of the tokens.  freq[token] || 0 of an inherited
\* property is the function, and + 1 makes a string of it
termFrequency(tokens) ==
  [t \in Range(tokens) |->
     IF t \in ObjectPrototypeKeys THEN NotNumeric
     ELSE Cardinality({i \in 1..Len(tokens) : tokens[i] = t})]

\* the record preprocess returns for the filtered tokens
preprocessed(filtered) ==
  [tokens |-> filtered, bigrams |-> extractNgrams(filtered, 2),
   all |-> filtered \o extractNgrams(filtered, 2)]

preprocess(text) == preprocessed(removeStopwords(tokenize(text)))

\* intersection.size / union.size; 0 / 0 is NaN
jaccardSimilarity(set1, set2) ==
  LET intersection == set1 \cap set2
      union == set1 \cup set2
  IN IF Cardinality(union) = 0 THEN NaN
     ELSE (Cardinality(intersection) * Milli) \div Cardinality(union)

\* vec1, vec2: term -> weight in thousandths.  The quotient is rounded down
\* and the two roots up, so that the result never exceeds Milli.
\* vec[key] || 0: 0 for a missing key and for NaN, the inherited function for
\* a key of Object.prototype that the vector does not hold itself
valueOr0(vec, key) ==
  IF key \in DOMAIN vec THEN (IF IsNaN(vec[key]) THEN 0 ELSE vec[key])
  ELSE IF key \in ObjectPrototypeKeys THEN NotNumeric
  ELSE 0

\* the quotient of cosineSimilarity for sums that are numbers
cosineQuotient(dotProduct, norm1, norm2) ==
  IF norm1 = 0 \/ norm2 = 0 THEN 0
  ELSE ((dotProduct \div Milli) * Milli)
         \div CeilDiv(CeilSqrt(norm1) * CeilSqrt(norm2), Milli)

\* the sums over the keys, for the values v1 and v2 that are numbers
cosineOfNumbers(keys, v1, v2) ==
  cosineQuotient(SumSet(keys, [k \in keys |-> v1[k] * v2[k]]),
                 SumSet(keys, [k \in keys |-> v1[k] * v1[k]]),
                 SumSet(keys, [k \in keys |-> v2[k] * v2[k]]))

\* a sum with a value that is no number is NaN, and NaN === 0 is false: the
\* result is 0 when the other norm is 0, else NaN
cosineOfValues(keys, v1, v2) ==
  IF \A k \in keys : IsNumber(v1[k]) /\ IsNumber(v2[k]) THEN cosineOfNumbers(keys, v1, v2)
  ELSE IF \A k \in keys : v1[k] = 0 THEN 0
  ELSE IF \A k \in keys : v2[k] = 0 THEN 0
  ELSE NaN

cosineOf(vec1, vec2) ==
  cosineOfValues(DOMAIN vec1 \cup DOMAIN vec2,
                 [k \in DOMAIN vec1 \cup DOMAIN vec2 |-> valueOr0(vec1, k)],
                 [k \in DOMAIN vec1 \cup DOMAIN vec2 |-> valueOr0(vec2, k)])

cosineSimilarity(vec1, vec2) == cosineOf(vec1, vec2)

\* a term-frequency map as a vector in thousandths
AsMilli(tf) == [t \in DOMAIN tf |-> IF IsNumber(tf[t]) THEN tf[t] * Milli ELSE tf[t]]

----------------------------------------------------------------------------
(* embeddings/vectorizer: TFIDFVectorizer *)

\* 1000 * ln(n) for n = 1..10, rounded
LnMilli == <<0, 693, 1099, 1386, 1609, 1792, 1946, 2079, 2197, 2303>>

\* Math.log(a / b) in thousandths
LogRatio(a, b) == LnMilli[a] - LnMilli[b]

EmptyMap == <<>>

\* new TFIDFVectorizer()
NewVectorizer ==
  [documents |-> <<>>, vocabulary |-> EmptyMap, idf |-> EmptyMap,
   vectors |-> <<>>, fitted |-> FALSE]

\* the vectorizer held in the variables
Vectorizer ==
  [documents |-> documents, vocabulary |-> vocabulary, idf |-> idf,
   vectors |-> vectors, fitted |-> fitted]

\* the push of addDocument, for the tokens of the text
pushDocument(v, id, tokens) ==
  [v EXCEPT !.documents = Append(@, [id |-> id, tokens |-> tokens,
                                       termFreq |-> termFrequency(tokens)]),
            !.fitted = FALSE]

addDocument(v, id, text) == pushDocument(v, id, preprocess(text).all)

\* the keys of docFreq in the order Object.entries gives them: the order in
\* which the terms are first met, document by document (no term of the model's
\* texts is a canonical array index, which would come first)
\* new Set(doc.tokens): of no token when the document has no tokens property
tokensOf(doc) == IF "tokens" \in DOMAIN doc THEN doc.tokens ELSE <<>>

DocFreqTerms(docs) == Distinct(Flatten([i \in 1..Len(docs) |-> tokensOf(docs[i])]))

DocFreq(docs, term) == Cardinality({i \in 1..Len(docs) : term \in Range(tokensOf(docs[i]))})

\* this.vocabulary[term] = Object.keys(this.vocabulary).length, term after term
AssignIndex(voc, term) == (term :> Cardinality(DOMAIN voc)) @@ voc

AssignIndices(voc, terms) ==
  LET F[i \in 0..Len(terms)] ==
        IF i = 0 THEN voc ELSE AssignIndex(F[i - 1], terms[i])
  IN F[Len(terms)]

\* the second loop of calculateIDF, over the terms of docFreq
assignIDF(v, terms) ==
  [v EXCEPT !.idf = [term \in Range(terms) |->
                       IF term \in ObjectPrototypeKeys THEN NaN
                       ELSE LogRatio(Len(v.documents) + 1, DocFreq(v.documents, term) + 1)
                              + Milli] @@ @,
            !.vocabulary = AssignIndices(@, terms)]

calculateIDF(v) == assignIDF(v, DocFreqTerms(v.documents))

\* weight = (freq / maxFreq) * idf[term], for the terms the IDF table knows
\* Math.max(...Object.values(termFreq), 1): NaN when a value is no number
maxFreqOf(termFreq) ==
  IF \E term \in DOMAIN termFreq : ~IsNumber(termFreq[term]) THEN NaN
  ELSE Max2(MaxSet(DOMAIN termFreq, termFreq), 1)

\* this.idf[term]: the value the table holds, else what {} inherits
idfOf(v, term) ==
  IF term \in DOMAIN v.idf THEN v.idf[term]
  ELSE IF term \in ObjectPrototypeKeys THEN NotNumeric
  ELSE 0

\* (freq / maxFreq) * idf
weightOf(freq, maxFreq, idfValue) ==
  IF IsNumber(freq) /\ IsNumber(maxFreq) /\ IsNumber(idfValue)
  THEN (freq * idfValue) \div maxFreq
  ELSE NaN

vectorizeWith(v, termFreq, maxFreq) ==
  [term \in {t \in DOMAIN termFreq : idfOf(v, t) # 0 /\ ~IsNaN(idfOf(v, t))} |->
     weightOf(termFreq[term], maxFreq, idfOf(v, term))]

vectorize(v, termFreq) == vectorizeWith(v, termFreq, maxFreqOf(termFreq))

\* a fit() without the guard on the empty document set
fitNeverThrows(v) == FALSE

\* fit() throws when there is no document
fitThrows(v) == Len(v.documents) = 0

\* the vectors of the documents, once the IDF table is computed
vectorizeDocuments(w) ==
  [w EXCEPT !.vectors = [i \in 1..Len(w.documents) |->
                           [id |-> w.documents[i].id,
                            vector |-> vectorize(w, w.documents[i].termFreq)]],
            !.fitted = TRUE]

\* the vectorizer after fit(): untouched when fit throws
fit(v) == IF fitThrows(v) THEN v ELSE vectorizeDocuments(calculateIDF(v))

\* a query vector that weighs every term of the IDF table alike
transformQueryUniform(v, query) == [term \in DOMAIN v.idf |-> Milli]

transformQuery(v, query) == vectorize(v, termFrequency(preprocess(query).all))

\* a ranking that takes the first topK positive scores as they come
rankVectorsUnsorted(v, queryVector, topK) ==
  Take(SelectSeq([i \in 1..Len(v.vectors) |->
                    [id |-> v.vectors[i].id,
                     score |-> cosineOf(queryVector, v.vectors[i].vector)]],
                 LAMBDA s : s.score > 0), topK)

\* the scores of the documents against a query vector, the best topK
rankVectors(v, queryVector, topK) ==
  LET scores == [i \in 1..Len(v.vectors) |->
                   [id |-> v.vectors[i].id,
                    score |-> cosineOf(queryVector, v.vectors[i].vector)]]
      positive == SelectSeq(scores, LAMBDA s : s.score > 0)
  IN Take(StableSort(positive, LAMBDA a, b : b.score - a.score < 0), topK)

\* the ranking of search once the vectorizer is fitted
Rank(v, query, topK) == rankVectors(v, transformQuery(v, query), topK)

\* search(query, topK) throws when its lazy fit does
searchThrows(v) == ~v.fitted /\ fitThrows(v)

\* a search that ranks without fitting
searchWithoutFit(v) == v

\* the vectorizer after search(query, topK): fitted first when it was not
searchFit(v) == IF ~v.fitted THEN fit(v) ELSE v

\* what search(query, topK) returns
search(v, query, topK) ==
  IF searchThrows(v) THEN <<>> ELSE Rank(searchFit(v), query, topK)

\* export(): the documents with their id and termFreq (and metadata), without
\* their tokens and text; the tables, the vectors and the flag as they are
export(v) ==
  [documents |-> [i \in 1..Len(v.documents) |->
                    [id |-> v.documents[i].id, termFreq |-> v.documents[i].termFreq]],
   vocabulary |-> v.vocabulary, idf |-> v.idf, vectors |-> v.vectors,
   fitted |-> v.fitted]

\* import(state) on a new vectorizer: every field taken from the state
import(state) ==
  [documents |-> state.documents, vocabulary |-> state.vocabulary,
   idf |-> state.idf, vectors |-> state.vectors, fitted |-> state.fitted]

\* getStats() throws a TypeError on d.tokens.length when a document has no
\* tokens property
getStatsThrows(v) == \E i \in 1..Len(v.documents) : "tokens" \notin DOMAIN v.documents[i]

\* the sum of d.tokens.length over the documents
tokenCount(docs) == SumSet(1..Len(docs), [i \in 1..Len(docs) |-> Len(docs[i].tokens)])

\* what getStats() returns, the average length in thousandths
getStats(v) ==
  IF getStatsThrows(v) THEN <<>>
  ELSE [numDocuments |-> Len(v.documents),
        vocabularySize |-> Cardinality(DOMAIN v.vocabulary),
        averageDocLength |-> (tokenCount(v.documents) * Milli)
                               \div Max2(Len(v.documents), 1),
        fitted |-> v.fitted]

----------------------------------------------------------------------------
(* search/semantic: SemanticSearch, and QAEngine.loadArticles *)

\* the default minScore of SemanticSearch.search, 0.1, in thousandths
MinScore == 100

\* new SemanticSearch()
NewSemanticSearch == [vectorizer |-> NewVectorizer, articles |-> EmptyMap]

\* the SemanticSearch held in the variables
Semantic == [vectorizer |-> Vectorizer, articles |-> ssArticles]

searchableText(article) ==
  Join(<<article.title, article.content, article.summary>>
         \o article.keyPoints \o article.tags, " ")

indexArticle(ss, article) ==
  [articles |-> (article.id :> article) @@ ss.articles,
   vectorizer |-> addDocument(ss.vectorizer, article.id, searchableText(article))]

\* the loop of indexArticles
indexEach(ss, batch) ==
  LET F[i \in 0..Len(batch)] ==
        IF i = 0 THEN ss ELSE indexArticle(F[i - 1], batch[i])
  IN F[Len(batch)]

\* the fit that ends indexArticles
fitIndexed(added) == [added EXCEPT !.vectorizer = fit(@)]

\* the SemanticSearch after indexArticles(articles)
indexArticles(ss, batch) == fitIndexed(indexEach(ss, batch))

\* indexArticles(articles) throws when its fit does
indexArticlesThrows(ss, batch) == fitThrows(indexEach(ss, batch).vectorizer)

\* one hit of SemanticSearch.search, with the fields of the article it names
Enhanced(ss, r) ==
  LET known == r.id \in DOMAIN ss.articles
      article == ss.articles[r.id]
  IN [id |-> r.id, score |-> r.score,
      title |-> IF known /\ article.title # "" THEN article.title ELSE "Unknown",
      category |-> IF known THEN article.category ELSE "",
      tags |-> IF known THEN article.tags ELSE <<>>,
      savedAt |-> IF known THEN article.savedAt ELSE 0,
      summary |-> IF known THEN article.summary ELSE "",
      keyPoints |-> IF known THEN article.keyPoints ELSE <<>>]

\* the hits of the vectorizer that reach minScore, enhanced
enhance(ss, results, minScore) ==
  LET kept == SelectSeq(results, LAMBDA x : x.score >= minScore)
  IN [i \in 1..Len(kept) |-> Enhanced(ss, kept[i])]

\* SemanticSearch.search(query, {topK, minScore}) throws when its fit does
semanticSearchThrows(ss) == searchThrows(ss.vectorizer)

\* the SemanticSearch after search(query, options): fitted first when it was not
semanticSearchFit(ss) == [ss EXCEPT !.vectorizer = searchFit(@)]

\* what SemanticSearch.search(query, {topK, minScore}) returns
semanticSearch(ss, query, topK, minScore) ==
  IF semanticSearchThrows(ss) THEN <<>>
  ELSE enhance(ss, search(searchFit(ss.vectorizer), query, topK), minScore)

\* the query findSimilar makes of an article: title, summary and key points
similarText(article) ==
  Join(<<article.title, article.summary>> \o article.keyPoints, " ")

\* the hits of findSimilar before the source is taken out
similarHits(ss, articleId, topK) ==
  semanticSearch(ss, similarText(ss.articles[articleId]), topK + 1, MinScore)

\* a findSimilar that does not take the source out
findSimilarWithSource(ss, articleId, topK) ==
  IF articleId \notin DOMAIN ss.articles THEN <<>>
  ELSE similarHits(ss, articleId, topK)

\* what findSimilar(articleId, topK) returns
findSimilar(ss, articleId, topK) ==
  IF articleId \notin DOMAIN ss.articles THEN <<>>
  ELSE Take(SelectSeq(similarHits(ss, articleId, topK), LAMBDA r : r.id # articleId), topK)

----------------------------------------------------------------------------
(* analysis/trends: TrendAnalyzer *)

\* the windows of analyzeTrend and findEmergingTopics, and the default of
\* findHotTopics, in days
RecentDays == 30

OlderDays == 60

\* String.prototype.includes
includes(s, sub) ==
  \E i \in 1..(Len(s) - Len(sub) + 1) : SubSeq(s, i, i + Len(sub) - 1) = sub

\* Array.prototype.slice(-k)
LastOf(s, k) == SubSeq(s, Max2(Len(s) - k + 1, 1), Len(s))

\* Math.round(a / b) for a >= 0 and b > 0
RoundDiv(a, b) == (2 * a + b) \div (2 * b)

Occurrences(s, x) == Cardinality({i \in 1..Len(s) : s[i] = x})

\* the filter of buildTimeline(tag), for a tag that is given
timelineMatches(a, tag) ==
  \/ tag \in Range(a.tags)
  \/ includes(toLowerCase(a.title), toLowerCase(tag))
  \/ includes(toLowerCase(a.content), toLowerCase(tag))

\* the array buildTimeline sorts: a filtered copy when a tag is given,
\* this.articles itself when none is (tag = "" stands for null, undefined and '')
timelineFiltered(articles, tag) ==
  IF tag # "" THEN SelectSeq(articles, LAMBDA a : timelineMatches(a, tag))
  ELSE articles

\* filtered.sort by savedAt, oldest first
timelineSorted(articles, tag) ==
  StableSort(timelineFiltered(articles, tag), LAMBDA a, b : a.savedAt < b.savedAt)

timelineEntry(article) ==
  [date |-> article.savedAt, title |-> article.title, id |-> article.id,
   category |-> article.category, keyPoints |-> Take(article.keyPoints, 2)]

timelineEntries(sorted) == [i \in 1..Len(sorted) |-> timelineEntry(sorted[i])]

\* what buildTimeline(tag) returns
buildTimeline(articles, tag) == timelineEntries(timelineSorted(articles, tag))

\* this.articles after buildTimeline(tag): sorted in place when no tag is given
buildTimelineArticles(articles, tag) ==
  IF tag # "" THEN articles ELSE timelineSorted(articles, tag)

recentCountOf(timeline) ==
  Cardinality({i \in 1..Len(timeline) : timeline[i].date > Now - RecentDays})

\* a count of the older window that does not end where the recent one begins
olderCountWide(timeline) ==
  Cardinality({i \in 1..Len(timeline) : timeline[i].date > Now - OlderDays})

olderCountOf(timeline) ==
  Cardinality({i \in 1..Len(timeline) :
                 /\ timeline[i].date > Now - OlderDays
                 /\ timeline[i].date <= Now - RecentDays})

\* a classification that looks at the length of the timeline first
trendOfLengthFirst(recentCount, olderCount, length) ==
  IF length = 1 THEN "new"
  ELSE IF 2 * recentCount > 3 * olderCount THEN "rising"
  ELSE IF 2 * recentCount < olderCount /\ olderCount > 0 THEN "declining"
  ELSE "stable"

\* the if / else-if chain of analyzeTrend: recent > older * 1.5, recent < older * 0.5
trendOf(recentCount, olderCount, length) ==
  IF 2 * recentCount > 3 * olderCount THEN "rising"
  ELSE IF 2 * recentCount < olderCount /\ olderCount > 0 THEN "declining"
  ELSE IF length = 1 THEN "new"
  ELSE "stable"

keyPointsOverTime(timeline) ==
  SelectSeq([i \in 1..Len(timeline) |->
               [date |-> timeline[i].date, points |-> timeline[i].keyPoints]],
            LAMBDA a : Len(a.points) > 0)

\* what analyzeTrend returns for the timeline of the tag; trendDescription is
\* one fixed text per trend and is stood for by trend
trendOfTimeline(tag, timeline) ==
  IF Len(timeline) = 0
  THEN [tag |-> tag, articleCount |-> 0, trend |-> "no_data"]
  ELSE [tag |-> tag,
        articleCount |-> Len(timeline),
        trend |-> trendOf(recentCountOf(timeline), olderCountOf(timeline), Len(timeline)),
        recentCount |-> recentCountOf(timeline),
        olderCount |-> olderCountOf(timeline),
        firstMention |-> timeline[1].date,
        lastMention |-> timeline[Len(timeline)].date,
        timeline |-> LastOf(timeline, 10),
        keyPointsEvolution |-> LastOf(keyPointsOverTime(timeline), 5)]

analyzeTrend(articles, tag) == trendOfTimeline(tag, buildTimeline(articles, tag))

\* the tags of the articles, article after article
tagsOf(articles) == Flatten([i \in 1..Len(articles) |-> articles[i].tags])

\* Object.entries of a tag counter: the tags in the order they were first
\* counted (no tag of the model is a canonical array index), with their counts
tagCounts(tags) ==
  [i \in 1..Len(Distinct(tags)) |->
     [tag |-> Distinct(tags)[i], count |-> Occurrences(tags, Distinct(tags)[i])]]

\* the sort, slice and map of findHotTopics
hotTopicsOf(recentArticles) ==
  LET top == Take(StableSort(tagCounts(tagsOf(recentArticles)),
                             LAMBDA a, b : b.count < a.count), 10)
  IN [i \in 1..Len(top) |->
        [tag |-> top[i].tag, count |-> top[i].count,
         percentage |-> RoundDiv(top[i].count * 100, Len(recentArticles))]]

findHotTopics(articles, days) ==
  hotTopicsOf(SelectSeq(articles, LAMBDA a : a.savedAt > Now - days))

\* olderTags[tag] || 0
countOf(counts, tag) ==
  IF \E i \in 1..Len(counts) : counts[i].tag = tag
  THEN counts[CHOOSE i \in 1..Len(counts) : counts[i].tag = tag].count
  ELSE 0

\* growth, in thousandths
growthOf(recentCount, olderCount) ==
  IF olderCount = 0 THEN recentCount * 2 * Milli
  ELSE (recentCount * Milli) \div olderCount

\* the loop over recentTags, the sort and the slice of findEmergingTopics
emergingOf(recentTags, olderTags) ==
  LET emerging == SelectSeq(
        [i \in 1..Len(recentTags) |->
           [tag |-> recentTags[i].tag,
            recentCount |-> recentTags[i].count,
            olderCount |-> countOf(olderTags, recentTags[i].tag),
            growth |-> growthOf(recentTags[i].count,
                                countOf(olderTags, recentTags[i].tag))]],
        LAMBDA e : e.recentCount > e.olderCount)
  IN Take(StableSort(emerging, LAMBDA a, b : b.growth < a.growth), 5)

findEmergingTopics(articles) ==
  emergingOf(
    tagCounts(tagsOf(SelectSeq(articles, LAMBDA a : a.savedAt > Now - RecentDays))),
    tagCounts(tagsOf(SelectSeq(articles, LAMBDA a :
                                 /\ a.savedAt > Now - OlderDays
                                 /\ a.savedAt <= Now - RecentDays))))

----------------------------------------------------------------------------
(* analysis/connections: ConnectionDiscovery *)

\* the default minScore of buildConnectionGraph, 0.15
GraphMinScore == 150

\* the minScore findClusters builds the graph with, 0.25
ClusterMinScore == 250

\* the score a connection must exceed to join a cluster, 0.3
ClusterLinkScore == 300

\* [...tags1].filter(t => tags2.has(t)): in the order of article1's tags
sharedTagsOf(article1, article2) ==
  SelectSeq(Distinct(article1.tags), LAMBDA t : t \in Range(article2.tags))

\* a tag overlap that divides by the number of tags of the first article
tagOverlapOfFirst(article1, article2) ==
  (Len(sharedTagsOf(article1, article2)) * Milli)
    \div Max2(Len(Distinct(article1.tags)), 1)

\* sharedTags.length / Math.max(tags1.size, tags2.size, 1)
tagOverlapOf(article1, article2) ==
  (Len(sharedTagsOf(article1, article2)) * Milli)
    \div Max2(Max2(Len(Distinct(article1.tags)), Len(Distinct(article2.tags))), 1)

titleSimilarityOf(article1, article2) ==
  jaccardSimilarity(Range(preprocess(article1.title).tokens),
                    Range(preprocess(article2.title).tokens))

\* [title, summary, ...keyPoints].join(' ')
relationContent(article) ==
  Join(<<article.title, article.summary>> \o article.keyPoints, " ")

topicSimilarityOf(article1, article2) ==
  cosineSimilarity(AsMilli(termFrequency(preprocess(relationContent(article1)).tokens)),
                   AsMilli(termFrequency(preprocess(relationContent(article2)).tokens)))

\* the Jaccard of the key points' tokens, computed only if (kp1 && kp2)
keyPointSimilarityOf(kp1, kp2) ==
  IF kp1 # "" /\ kp2 # ""
  THEN jaccardSimilarity(Range(preprocess(kp1).tokens), Range(preprocess(kp2).tokens))
  ELSE 0

\* tagOverlap * 0.4 + topicSimilarity * 0.4 + keyPointSimilarity * 0.2
totalScoreOf(tagOverlap, topicSimilarity, keyPointSimilarity) ==
  IF IsNaN(tagOverlap) \/ IsNaN(topicSimilarity) \/ IsNaN(keyPointSimilarity)
  THEN NaN
  ELSE (4 * tagOverlap + 4 * topicSimilarity + 2 * keyPointSimilarity) \div 10

AbsDiff(a, b) == IF a >= b THEN a - b ELSE b - a

\* the pushes to relations.types, in their order
relationTypes(article1, article2, r, titleSimilarity) ==
  (IF Len(r.sharedTags) >= 2 THEN <<"sharedTheme">> ELSE <<>>)
  \o (IF Gt(titleSimilarity, 300) THEN <<"similarTitle">> ELSE <<>>)
  \o (IF Gt(r.keyPointSimilarity, 200) THEN <<"relatedKeyPoints">> ELSE <<>>)
  \o (IF article1.category = article2.category /\ article1.category # ""
      THEN <<"sameCategory">> ELSE <<>>)
  \o (IF AbsDiff(article1.savedAt, article2.savedAt) <= 7 /\ Gt(r.totalScore, 200)
      THEN <<"recentlyRelated">> ELSE <<>>)

\* the record calculateRelation returns, from its three similarities
relationOf(article1, article2, tagOverlap, topicSimilarity, keyPointSimilarity) ==
  [tagOverlap |-> tagOverlap,
   topicSimilarity |-> topicSimilarity,
   keyPointSimilarity |-> keyPointSimilarity,
   totalScore |-> totalScoreOf(tagOverlap, topicSimilarity, keyPointSimilarity),
   sharedTags |-> sharedTagsOf(article1, article2)]

withTypes(article1, article2, r) ==
  [tagOverlap |-> r.tagOverlap,
   topicSimilarity |-> r.topicSimilarity,
   keyPointSimilarity |-> r.keyPointSimilarity,
   totalScore |-> r.totalScore,
   sharedTags |-> r.sharedTags,
   types |-> relationTypes(article1, article2, r, titleSimilarityOf(article1, article2))]

calculateRelation(article1, article2) ==
  withTypes(article1, article2,
            relationOf(article1, article2,
                       tagOverlapOf(article1, article2),
                       topicSimilarityOf(article1, article2),
                       keyPointSimilarityOf(Join(article1.keyPoints, " "),
                                            Join(article2.keyPoints, " "))))

\* the entry pushed to connectionGraph[article1.id] for article2
connection(article2, relation) ==
  [targetId |-> article2.id, targetTitle |-> article2.title,
   score |-> relation.totalScore, types |-> relation.types,
   sharedTags |-> relation.sharedTags]

\* the articles other than the i-th, in their order
others(articles, i) ==
  [k \in 1..(Len(articles) - 1) |-> articles[IF k < i THEN k ELSE k + 1]]

\* lists that leave the connections in the order of the articles
connectionsOfUnsorted(articles, i, minScore) ==
  SelectSeq([k \in 1..(Len(articles) - 1) |->
               connection(others(articles, i)[k],
                          calculateRelation(articles[i], others(articles, i)[k]))],
            LAMBDA c : Ge(c.score, minScore))

\* connectionGraph[articles[i].id] once the inner loop and the sort are done
connectionsOf(articles, i, minScore) ==
  StableSort(
    SelectSeq([k \in 1..(Len(articles) - 1) |->
                 connection(others(articles, i)[k],
                            calculateRelation(articles[i], others(articles, i)[k]))],
              LAMBDA c : Ge(c.score, minScore)),
    LAMBDA a, b : b.score < a.score)

\* the index of the last article with the id: a later article overwrites the
\* entry of an earlier one with the same id
lastWithId(articles, id) ==
  CHOOSE i \in 1..Len(articles) :
    /\ articles[i].id = id
    /\ \A j \in (i + 1)..Len(articles) : articles[j].id # id

\* what buildConnectionGraph(minScore) returns and leaves in connectionGraph
buildConnectionGraph(articles, minScore) ==
  [id \in {articles[i].id : i \in 1..Len(articles)} |->
     connectionsOf(articles, lastWithId(articles, id), minScore)]

\* the score a relation of findConnectionsForNewArticle must exceed, 0.1
NewArticleMinScore == 100

\* the connections findConnectionsForNewArticle returns at most
NewArticleTopK == 5

\* the entry pushed to connections for an article of this.articles
newConnection(existing, relation) ==
  [article |-> [id |-> existing.id, title |-> existing.title,
                category |-> existing.category],
   score |-> relation.totalScore, types |-> relation.types,
   sharedTags |-> relation.sharedTags]

\* the connections pushed in the for loop, in the order of this.articles
newConnections(articles, newArticle) ==
  SelectSeq([k \in 1..Len(articles) |->
               newConnection(articles[k], calculateRelation(newArticle, articles[k]))],
            LAMBDA c : Gt(c.score, NewArticleMinScore))

\* a preview that returns the connections as they were pushed
findConnectionsUnsorted(articles, newArticle) == newConnections(articles, newArticle)

\* what findConnectionsForNewArticle(newArticle) returns
findConnectionsForNewArticle(articles, newArticle) ==
  Take(StableSort(newConnections(articles, newArticle),
                  LAMBDA a, b : b.score < a.score), NewArticleTopK)

\* connectionGraph after findConnections(articleId): built with the default
\* threshold when it has no list for the id, else left as it is
findConnectionsGraph(articles, g, articleId) ==
  IF articleId \in DOMAIN g THEN g ELSE buildConnectionGraph(articles, GraphMinScore)

\* (this.connectionGraph[articleId] || []).slice(0, topK)
connectionsIn(g, articleId, topK) ==
  IF articleId \in DOMAIN g THEN Take(g[articleId], topK) ELSE <<>>

\* what findConnections(articleId, topK) returns
findConnections(articles, g, articleId, topK) ==
  connectionsIn(findConnectionsGraph(articles, g, articleId), articleId, topK)

\* themes of findCommonThemes, in the order the tags are first met
themesOf(articles, tags) ==
  [i \in 1..Len(tags) |->
     [tag |-> tags[i],
      articles |-> Flatten([k \in 1..Len(articles) |->
                              [n \in 1..Occurrences(articles[k].tags, tags[i]) |->
                                 [id |-> articles[k].id, title |-> articles[k].title]]]),
      count |-> Occurrences(tagsOf(articles), tags[i])]]

findCommonThemes(articles) ==
  StableSort(SelectSeq(themesOf(articles, Distinct(tagsOf(articles))),
                       LAMBDA t : t.count >= 2),
             LAMBDA a, b : b.count < a.count)

\* the values of queue, visited and cluster in the while loop of findClusters
BfsStates ==
  [queue : Seq(STRING), visited : SUBSET STRING,
   cluster : Seq([id : STRING, title : STRING])]

\* the entries pushed to cluster for currentId: the first article with that id
clusterEntry(articles, currentId) ==
  IF \E i \in 1..Len(articles) : articles[i].id = currentId
  THEN LET first == CHOOSE k \in 1..Len(articles) :
                      /\ articles[k].id = currentId
                      /\ \A j \in 1..(k - 1) : articles[j].id # currentId
       IN <<[id |-> articles[first].id, title |-> articles[first].title]>>
  ELSE <<>>

\* a traversal that follows no connection
linkedIdsNone(connections, visited) == <<>>

\* the ids pushed to the queue for the connections of currentId
linkedIds(connections, visited) ==
  LET kept == SelectSeq(connections,
                        LAMBDA c : c.targetId \notin visited /\ Gt(c.score, ClusterLinkScore))
  IN [i \in 1..Len(kept) |-> kept[i].targetId]

\* one turn of the while loop
bfsStep(articles, g, st) ==
  IF Head(st.queue) \in st.visited
  THEN [st EXCEPT !.queue = Tail(@)]
  ELSE [queue |-> Tail(st.queue)
                    \o linkedIds(IF Head(st.queue) \in DOMAIN g THEN g[Head(st.queue)]
                                 ELSE <<>>,
                                 st.visited \cup {Head(st.queue)}),
        visited |-> st.visited \cup {Head(st.queue)},
        cluster |-> st.cluster \o clusterEntry(articles, Head(st.queue))]

\* the while loop, from the queue that holds the id of one article
bfs(articles, g, start) ==
  LET Loop[st \in BfsStates] ==
        IF Len(st.queue) = 0 THEN st ELSE Loop[bfsStep(articles, g, st)]
  IN Loop[start]

\* the values of visited and clusters in the for loop of findClusters
ClusterStates ==
  [visited : SUBSET STRING, clusters : Seq(Seq([id : STRING, title : STRING]))]

\* a for loop that keeps every cluster
keepEveryCluster(acc, end) ==
  [visited |-> end.visited, clusters |-> Append(acc.clusters, end.cluster)]

\* the end of one turn of the for loop: the cluster is kept if it has two articles
keepCluster(acc, end) ==
  [visited |-> end.visited,
   clusters |-> IF Len(end.cluster) >= 2 THEN Append(acc.clusters, end.cluster)
                ELSE acc.clusters]

\* one turn of the for loop
clusterStep(articles, g, acc, article) ==
  IF article.id \in acc.visited THEN acc
  ELSE keepCluster(acc, bfs(articles, g,
                            [queue |-> <<article.id>>, visited |-> acc.visited,
                             cluster |-> <<>>]))

\* the for loop of findClusters over the graph g, and the sort by size
clustersOf(articles, g) ==
  LET Loop[acc \in ClusterStates, i \in 1..(Len(articles) + 1)] ==
        IF i > Len(articles) THEN acc
        ELSE Loop[clusterStep(articles, g, acc, articles[i]), i + 1]
  IN StableSort(Loop[[visited |-> {}, clusters |-> <<>>], 1].clusters,
                LAMBDA a, b : Len(b) < Len(a))

\* what findClusters() returns; it leaves buildConnectionGraph(0.25) in connectionGraph
findClusters(articles) ==
  clustersOf(articles, buildConnectionGraph(articles, ClusterMinScore))

----------------------------------------------------------------------------
(* analysis/insights: InsightGenerator *)

\* point.toLowerCase().slice(0, 50)
normalized(point) == Take(toLowerCase(point), 50)

\* a de-duplication that compares the points as they are
deduplicateExact(points) == Distinct(points)

\* the points whose normalized form was not seen before, in their order
deduplicatePoints(points) ==
  LET firsts == {i \in 1..Len(points) :
                   \A j \in 1..(i - 1) : normalized(points[j]) # normalized(points[i])}
  IN [k \in 1..Cardinality(firsts) |-> points[Ascending(firsts)[k]]]

\* the tags other than tag of the articles that carry tag, most frequent first
findRelatedTopics(articles, tag) ==
  LET top == Take(StableSort(
                    tagCounts(SelectSeq(
                      tagsOf(SelectSeq(articles, LAMBDA a : tag \in Range(a.tags))),
                      LAMBDA t : t # tag)),
                    LAMBDA a, b : b.count < a.count), 5)
  IN [i \in 1..Len(top) |-> [tag |-> top[i].tag, coOccurrence |-> top[i].count]]

\* extractKeywords(text, topN) of utils/text (no token of the model's texts is
\* a canonical array index, which Object.entries would put first)
extractKeywords(text, topN) ==
  LET top == Take(StableSort(
                    SelectSeq(tagCounts(preprocess(text).tokens),
                              LAMBDA e : Len(e.tag) >= 2),
                    LAMBDA a, b : b.count < a.count), topN)
  IN [i \in 1..Len(top) |-> [token |-> top[i].tag, count |-> top[i].count]]

\* the filter of generateTopicInsights
relatedArticlesOf(articles, tag) ==
  SelectSeq(articles, LAMBDA a :
    tag \in Range(a.tags) \/ includes(toLowerCase(a.title), toLowerCase(tag)))

combinedText(relatedArticles) ==
  Join([i \in 1..Len(relatedArticles) |-> relationContent(relatedArticles[i])], " ")

coreKeywords(relatedArticles) ==
  LET keywords == Take(extractKeywords(combinedText(relatedArticles), 15), 8)
  IN [i \in 1..Len(keywords) |-> keywords[i].token]

\* relatedArticles.sort(oldest first)[0], then .sort(newest first)[0]
timespanOf(relatedArticles) ==
  [first |-> StableSort(relatedArticles, LAMBDA a, b : a.savedAt < b.savedAt)[1].savedAt,
   last |-> StableSort(StableSort(relatedArticles, LAMBDA a, b : a.savedAt < b.savedAt),
                       LAMBDA a, b : b.savedAt < a.savedAt)[1].savedAt]

\* the insights of a tag with related articles; the trend is read from
\* analyzeTrend(tag), the related topics from this.articles as analyzeTrend left it
topicInsights(articles, tag, relatedArticles) ==
  [tag |-> tag,
   articleCount |-> Len(relatedArticles),
   trend |-> analyzeTrend(articles, tag).trend,
   mainPoints |-> Take(deduplicatePoints(
                         Flatten([i \in 1..Len(relatedArticles) |->
                                    relatedArticles[i].keyPoints])), 5),
   coreKeywords |-> coreKeywords(relatedArticles),
   timespan |-> timespanOf(relatedArticles),
   relatedTopics |-> findRelatedTopics(buildTimelineArticles(articles, tag), tag)]

\* what generateTopicInsights(tag) returns
generateTopicInsights(articles, tag) ==
  IF Len(relatedArticlesOf(articles, tag)) = 0
  THEN [tag |-> tag, status |-> "no_data"]
  ELSE topicInsights(articles, tag, relatedArticlesOf(articles, tag))

\* this.articles after generateTopicInsights(tag): analyzeTrend(tag) runs when
\* there is a related article
generateTopicInsightsArticles(articles, tag) ==
  IF Len(relatedArticlesOf(articles, tag)) = 0 THEN articles
  ELSE buildTimelineArticles(articles, tag)

\* the types of the narrative insights, with the tag each one names
generateNarrativeInsights(articles, commonThemes, emergingTopics) ==
  (IF Len(commonThemes) > 0
   THEN <<[type |-> "core_theme", tag |-> commonThemes[1].tag]>> ELSE <<>>)
  \o (IF Len(emergingTopics) > 0
      THEN <<[type |-> "emerging", tag |-> emergingTopics[1].tag]>> ELSE <<>>)
  \o (IF Cardinality({articles[i].category : i \in 1..Len(articles)} \ {""}) >= 3
      THEN <<[type |-> "diversity", tag |-> ""]>> ELSE <<>>)

knowledgeClusters(clusters) ==
  [i \in 1..Len(clusters) |->
     [size |-> Len(clusters[i]),
      articles |-> [k \in 1..Len(clusters[i]) |-> clusters[i][k].title]]]

coreThemes(commonThemes) ==
  [i \in 1..Len(Take(commonThemes, 5)) |->
     [theme |-> commonThemes[i].tag,
      articleCount |-> commonThemes[i].count,
      articles |-> [k \in 1..Len(commonThemes[i].articles) |->
                      commonThemes[i].articles[k].title]]]

\* what generateCrossArticleInsights() returns
generateCrossArticleInsights(articles) ==
  IF Len(articles) < 2
  THEN [status |-> "insufficient_data"]
  ELSE [totalArticles |-> Len(articles),
        knowledgeClusters |-> knowledgeClusters(findClusters(articles)),
        coreThemes |-> coreThemes(findCommonThemes(articles)),
        trends |-> [hot |-> Take(findHotTopics(articles, RecentDays), 3),
                    emerging |-> Take(findEmergingTopics(articles), 3)],
        narrativeInsights |-> generateNarrativeInsights(
                                articles, findCommonThemes(articles),
                                findEmergingTopics(articles))]

\* the window of generateWeeklyInsights, in days
WeekDays == 7

\* the articles saved after weekAgo
weeklyArticlesOf(articles) == SelectSeq(articles, LAMBDA a : a.savedAt > Now - WeekDays)

\* the five most frequent tags of the week, as {tag, count}
weeklyTopics(weeklyArticles) ==
  Take(StableSort(tagCounts(tagsOf(weeklyArticles)), LAMBDA a, b : b.count < a.count), 5)

\* what generateWeeklyInsights() returns for a week with articles
weeklyInsightsOf(weeklyArticles) ==
  [status |-> "active",
   articleCount |-> Len(weeklyArticles),
   topTopics |-> weeklyTopics(weeklyArticles),
   keyTakeaways |->
     Take(deduplicatePoints(Flatten([i \in 1..Len(weeklyArticles) |->
                                       weeklyArticles[i].keyPoints])), 5),
   articles |-> [i \in 1..Len(weeklyArticles) |->
                   [title |-> weeklyArticles[i].title,
                    category |-> weeklyArticles[i].category,
                    date |-> weeklyArticles[i].savedAt]]]

\* the early return of generateWeeklyInsights, else the insights of the week
weeklyInsights(weeklyArticles) ==
  IF Len(weeklyArticles) = 0 THEN [status |-> "no_activity"]
  ELSE weeklyInsightsOf(weeklyArticles)

\* weekly insights without the early return
generateWeeklyInsightsActive(articles) == weeklyInsightsOf(weeklyArticlesOf(articles))

\* what generateWeeklyInsights() returns
generateWeeklyInsights(articles) == weeklyInsights(weeklyArticlesOf(articles))

\* connectionGraph of the InsightGenerator's ConnectionDiscovery after
\* generateCrossArticleInsights(): rebuilt by findClusters unless it returned early
crossArticleGraph(articles, g) ==
  IF Len(articles) < 2 THEN g ELSE buildConnectionGraph(articles, ClusterMinScore)

----------------------------------------------------------------------------
(* QAEngine.answer *)

\* the score results[0] must exceed for hasRelevantInfo, 0.15
RelevanceGate == 150

\* the topK of searchWithContext
ContextTopK == 3

\* The ideographs of the patterns of analyzeQuestion are written as a mark and
\* a digit each, so that a pattern is found only where an ideograph starts:
\*   ~0 U+4EC0  ~1 U+9EBC  ~2 U+662F  ~3 U+4F55  ~4 U+8B02  ~5 U+600E  ~6 U+7406
\*   ~7 U+89E3  ~8 U+548C  ~9 U+6BD4  ^0 U+5340  ^1 U+5225  ^2 U+5DEE  ^3 U+7570
\*   ^4 U+4E0D  ^5 U+540C  ^6 U+6709  ^7 U+54EA  ^8 U+4E9B  ^9 U+5217  |0 U+51FA
\*   |1 U+5305  |2 U+62EC  |3 U+70BA  |4 U+539F  |5 U+56E0  |6 U+7E3D  |7 U+7D50
\*   |8 U+6458  |9 U+8981  &0 U+6982  &1 U+8DA8  &2 U+52E2  &3 U+767C  &4 U+5C55
\*   &5 U+672A  &6 U+4F86  &7 U+89C0  &8 U+9EDE  &9 U+770B  %0 U+6CD5  %1 U+8A8D
\* and, for the texts asked: %2 U+7A69  %3 U+5B9A  %4 U+5E63  %5 U+4EE3
\*   %6 U+5316  %7 U+91CD  %9 U+FF1F (the full-width question mark)
\*
\* The patterns of analyzeQuestion in the order they are tried.  A pattern is
\* the sequence of its literal parts, with `.*` between one part and the next;
\* the patterns with the flag i are met by the lower-cased text as they are.
QuestionPatterns ==
  <<[type |-> "definition",
     patterns |-> {<<"~0~1~2">>, <<"~3~4">>, <<"~5~1~6~7">>,
                   <<"what is">>, <<"define">>, <<"explain">>}],
    [type |-> "comparison",
     patterns |-> {<<"~8", "~9">>, <<"^0^1">>, <<"^2^3">>, <<"^4^5">>,
                   <<"vs">>, <<"compare">>, <<"difference">>}],
    [type |-> "listing",
     patterns |-> {<<"^6^7^8">>, <<"^9|0">>, <<"|1|2">>, <<"what are">>, <<"list">>}],
    [type |-> "reason",
     patterns |-> {<<"|3~0~1">>, <<"|4|5">>, <<"why">>, <<"reason">>}],
    [type |-> "summary",
     patterns |-> {<<"|6|7">>, <<"|8|9">>, <<"&0|2">>, <<"summarize">>, <<"summary">>}],
    [type |-> "trend",
     patterns |-> {<<"&1&2">>, <<"&3&4">>, <<"&5&6">>, <<"trend">>, <<"future">>}],
    [type |-> "opinion",
     patterns |-> {<<"&7&8">>, <<"&9%0">>, <<"%1|3">>,
                   <<"opinion">>, <<"think">>, <<"view">>}]>>

\* the text holds part at position i
partAt(text, part, i) ==
  i >= 1 /\ i + Len(part) - 1 <= Len(text) /\ SubSeq(text, i, i + Len(part) - 1) = part

\* `.*` takes the characters from i to j - 1: any but a line terminator
gapBetween(text, i, j) == \A k \in i..(j - 1) : SubSeq(text, k, k) # "\n"

\* regex.test(text) for a pattern of one literal part or of two
regexTest(text, pattern) ==
  IF Len(pattern) = 1 THEN includes(text, pattern[1])
  ELSE \E i, j \in 1..Len(text) :
         /\ partAt(text, pattern[1], i)
         /\ j >= i + Len(pattern[1])
         /\ partAt(text, pattern[2], j)
         /\ gapBetween(text, i + Len(pattern[1]), j)

\* the types one of whose patterns the text meets, by their place in the order
matchingTypes(text) ==
  {i \in 1..Len(QuestionPatterns) :
     \E pattern \in QuestionPatterns[i].patterns : regexTest(text, pattern)}

\* the type the loops of analyzeQuestion return at, general after the loops
firstType(hits) ==
  IF hits = {} THEN "general"
  ELSE QuestionPatterns[CHOOSE i \in hits : \A j \in hits : i <= j].type

\* a classification that keeps trying and returns the last type that matched
lastType(hits) ==
  IF hits = {} THEN "general"
  ELSE QuestionPatterns[CHOOSE i \in hits : \A j \in hits : j <= i].type

typeOfLast(questionLower) == lastType(matchingTypes(questionLower))

\* the first type one of whose patterns the lower-cased question holds
typeOf(questionLower) == firstType(matchingTypes(questionLower))

analyzeQuestion(question) == typeOf(toLowerCase(question))

\* a gate that any hit passes
hasAnyResult(results) == Len(results) > 0

\* hasRelevantInfo of searchWithContext
hasRelevantInfo(results) ==
  Len(results) > 0 /\ Gt(results[1].score, RelevanceGate)

\* the context searchWithContext makes of the hits
contextOf(results) ==
  [i \in 1..Len(results) |->
     [title |-> results[i].title, relevance |-> results[i].score,
      summary |-> results[i].summary, keyPoints |-> results[i].keyPoints]]

\* what searchWithContext(question, topK) returns, for the hits of search
contextResult(question, results) ==
  [question |-> question, results |-> contextOf(results),
   hasRelevantInfo |-> hasRelevantInfo(results)]

searchWithContext(ss, question, topK) ==
  contextResult(question, semanticSearch(ss, question, topK, MinScore))

\* sources of an answer: title and relevance, Math.round(r.relevance * 100)
sourcesOf(results) ==
  [i \in 1..Len(results) |->
     [title |-> results[i].title, relevance |-> RoundDiv(results[i].relevance, 10)]]

\* r.savedAt || 0: day 0 when the entry has no savedAt property
savedAtOf(r) == IF "savedAt" \in DOMAIN r THEN r.savedAt ELSE 0

\* the timeline of generateTrendAnswer: the entries sorted by their savedAt,
\* each with its title, its savedAt as date and its first key point, the
\* first five
timelineOf(results) ==
  LET sorted == StableSort(results, LAMBDA a, b : savedAtOf(a) - savedAtOf(b) < 0)
  IN Take([i \in 1..Len(sorted) |->
             [title |-> sorted[i].title, date |-> savedAtOf(sorted[i]),
              keyPoint |-> IF Len(sorted[i].keyPoints) > 0
                           THEN sorted[i].keyPoints[1] ELSE ""]], 5)

\* what generateTrendAnswer(topic, results) adds to the answer
generateTrendAnswer(results) ==
  [timeline |-> timelineOf(results),
   enough |-> Len(results) >= 2]

\* an answer that does not look at hasRelevantInfo
answerAlways(question, searchResults) ==
  [status |-> "answered", question |-> question,
   questionType |-> analyzeQuestion(question),
   sources |-> sourcesOf(searchResults.results)]

\* status, question, questionType and sources of what answer(question)
\* returns, for what searchWithContext returned
answerOf(question, searchResults) ==
  IF ~searchResults.hasRelevantInfo
  THEN [status |-> "no_relevant_info", question |-> question,
        questionType |-> analyzeQuestion(question)]
  ELSE IF analyzeQuestion(question) = "trend"
  THEN [status |-> "answered", question |-> question,
        questionType |-> analyzeQuestion(question),
        timeline |-> generateTrendAnswer(searchResults.results).timeline,
        sources |-> sourcesOf(searchResults.results)]
  ELSE [status |-> "answered", question |-> question,
        questionType |-> analyzeQuestion(question),
        sources |-> sourcesOf(searchResults.results)]

answer(ss, question) ==
  answerOf(question, searchWithContext(ss, question, ContextTopK))

----------------------------------------------------------------------------
(* The articles, texts and queries the calls are made with *)

\* an article; a field the article lacks is "", <<>> or day 0
ArticleWith(id, title, summary, keyPoints, tags, category, savedAt) ==
  [id |-> id, title |-> title, content |-> "", summary |-> summary,
   keyPoints |-> keyPoints, tags |-> tags, category |-> category,
   savedAt |-> savedAt]

Article(id, title, keyPoints, tags, savedAt) ==
  ArticleWith(id, title, "", keyPoints, tags, "", savedAt)

ArticleA == Article("a", "RWA tokenization", <<"RWA needs redemption">>, <<"RWA">>, Now - 3)

ArticleB == Article("b", "Stablecoin future", <<"Stablecoin needs settlement">>,
                    <<"RWA", "DeFi">>, Now - 2)

ArticleC == Article("c", "AI in finance", <<"AI automates trading">>, <<"AI">>, Now - 1)

ArticlePool == {ArticleA, ArticleB, ArticleC}

\* the most documents the vectorizer is given
MaxDocs == 2

RECURSIVE SeqsUpTo(_, _)
SeqsUpTo(S, n) ==
  IF n = 0 THEN {<<>>}
  ELSE LET shorter == SeqsUpTo(S, n - 1)
       IN shorter \cup {Append(q, x) : q \in shorter, x \in S}

UniqueIds(articles) ==
  \A i, j \in 1..Len(articles) : articles[i].id = articles[j].id => i = j

\* the batches: articles of the pool with unique ids, the empty batch included
Batches == {b \in SeqsUpTo(ArticlePool, MaxDocs) : UniqueIds(b)}

\* the articles of the corpora the trends are read from: three of the last
\* 30 days, three of the 30 days before (t4 on the very day that parts the two
\* windows) and one on the day the older window begins, which is in neither
TrendPool ==
  {Article("t1", "RWA yields", <<"Yields rise">>, <<"RWA">>, Now - 5),
   Article("t2", "Tokenized funds", <<>>, <<"RWA", "DeFi">>, Now - 10),
   Article("t3", "Treasury tokens", <<>>, <<"RWA">>, Now - 20),
   Article("t4", "Custody rules", <<>>, <<"RWA">>, Now - RecentDays),
   Article("t5", "Settlement rails", <<>>, <<"RWA", "DeFi">>, Now - 45),
   Article("t6", "Collateral", <<>>, <<"RWA">>, Now - 59),
   Article("t7", "AI and RWA history", <<>>, <<"AI">>, Now - OlderDays)}

\* the longest corpus a TrendAnalyzer is constructed with
MaxCorpus == 4

\* the corpora: articles of the pool listed newest first, the empty one included
TrendCorpora ==
  {c \in SeqsUpTo(TrendPool, MaxCorpus) :
     \A i, j \in 1..Len(c) : i < j => c[i].savedAt > c[j].savedAt}

\* the most articles a ConnectionDiscovery is given
MaxArticles == 6

\* the articles of a set, newest first
RECURSIVE NewestFirst(_)
NewestFirst(S) ==
  IF S = {} THEN <<>>
  ELSE LET newest == CHOOSE x \in S : \A y \in S : y.savedAt <= x.savedAt
       IN <<newest>> \o NewestFirst(S \ {newest})

\* three articles of which the second is related to the first and to the third,
\* and the first and the third to one another not at all
ChainArticles ==
  {Article("k1", "RWA yields", <<>>, <<"RWA">>, Now - 3),
   Article("k2", "RWA yields DeFi rails", <<>>, <<"RWA", "DeFi">>, Now - 2),
   Article("k3", "DeFi rails", <<>>, <<"DeFi">>, Now - 1)}

\* the article sets of a ConnectionDiscovery: articles of the pool, up to six
\* that share a tag with one another, and the articles of the chain
ConnectionCorpora ==
  {NewestFirst(S) : S \in {T \in SUBSET TrendPool : Cardinality(T) <= MaxArticles}}
    \cup {NewestFirst(S) : S \in SUBSET ChainArticles}

\* the thresholds buildConnectionGraph is given: the score of two articles
\* that have one tag of two in common, and one above it
Thresholds == {200, 300}

\* the ids findConnections is asked for: of an article of the pool, and of none
ConnectionIds == {"t1", "x"}

\* the articles a preview is asked for: one that shares a tag with six of the
\* pool, one of the pool itself, and one with no tag and no text
Candidates ==
  {ArticleA, Article("t7", "AI and RWA history", <<>>, <<"AI">>, Now - OlderDays),
   ArticleWith("e", "", "", <<>>, <<>>, "", 0)}

\* the tags asked for; "" is the call without a tag
TrendTags == {"RWA", "AI", "DeFi", ""}

Questions ==
  {"what is RWA", "AI trend in finance", "why the metaverse", "what is liquidity",
   "RWA markets trend"}

\* the articles relations are computed between: tags in either order, no
\* field at all, key points of stopwords only, of punctuation only, of
\* ideographs, and a copy of the first under another id
RelationPool ==
  {ArticleWith("a", "RWA tokenization", "Tokenized assets", <<"RWA needs redemption">>,
               <<"RWA", "DeFi">>, "finance", Now - 3),
   ArticleWith("b", "Stablecoin future", "", <<"Stablecoin needs settlement">>,
               <<"DeFi", "RWA">>, "finance", Now - 2),
   ArticleWith("c", "AI in finance", "", <<"AI automates trading">>,
               <<"AI">>, "tech", Now - 1),
   ArticleWith("e", "", "", <<>>, <<>>, "", 0),
   ArticleWith("s", "The of", "", <<"the of and">>, <<"RWA">>, "", Now - 40),
   ArticleWith("p", "RWA tokenization", "", <<"...", "!?">>,
               <<"RWA", "AI", "DeFi">>, "finance", Now - 4),
   ArticleWith("z", "#$ RWA", "", <<"@ #$">>, <<"RWA", "RWA">>, "", Now - 3),
   ArticleWith("a2", "RWA tokenization", "Tokenized assets", <<"RWA needs redemption">>,
               <<"RWA", "DeFi">>, "finance", Now - 3)}

\* the tokens the sets handed to jaccardSimilarity are made of
JaccardTokens == {"rwa", "defi", "ai"}

DocIds == {"d"}

DocTexts == {"RWA tokenization", "the DeFi of RWA"}

\* the most articles the index of the three-document scenario is given
MaxIndexed == 3

\* the batches of the scenario, up to all three articles in every order
ScenarioBatches == {b \in SeqsUpTo(ArticlePool, MaxIndexed) : UniqueIds(b)}

\* an article whose text repeats one word, so that its other words weigh little
ArticleM ==
  ArticleWith("m", "Markets", "Markets markets",
              <<"Markets need liquidity", "Markets need custody">>,
              <<"Markets">>, "", Now - 1)

\* the articles a QAEngine is asked about
AnswerPool == {ArticleA, ArticleM}

AnswerBatches == {b \in SeqsUpTo(AnswerPool, MaxDocs) : UniqueIds(b)}

\* the most key points deduplicatePoints is given
MaxPoints == 3

\* a text of 50 characters
FiftyChars == "Tokenized treasuries settle faster than bank wires"

\* the key points: one in two spellings, two that part after 50 characters,
\* and one more
KeyPoints ==
  {"RWA needs redemption", "rwa NEEDS redemption", FiftyChars \o " today",
   FiftyChars \o " abroad", "Yields rise"}

PointLists == SeqsUpTo(KeyPoints, MaxPoints)

\* what deduplicatePoints returns for each of the lists, computed once
UniquePoints == [points \in PointLists |-> deduplicatePoints(points)]

\* the most characters of a text given to tokenize
MaxChars == 3

\* the characters of the texts: a letter in each case, a digit, an ideograph
\* and a hyphen
TextChars == {"a", "Z", "7", "#", "-"}

\* the texts given to tokenize: every text of the characters, and some longer
TokenizeTexts ==
  {Join(chars, "") : chars \in SeqsUpTo(TextChars, MaxChars)}
    \cup {"abc123", "RWA2024 #$-DeFi", "42nd, top10!"}

\* what tokenize returns for each of the texts, computed once
Tokenized == [text \in TokenizeTexts |-> tokenize(text)]

\* the most phrases a question is made of
MaxPhrases == 2

\* the phrases of the questions: words of the patterns in either case, the
\* ideographs of some patterns, words of no pattern and a line break
QuestionPhrases ==
  {"What is", "~0~1~2", "~8", "~9", "^6^7^8", "Why", "|3~0~1", "future", "RWA", "\n"}

\* the questions of the test 'QAEngine should analyze the question type'
QuestionDefinition == "~0~1~2 RWA%9"

QuestionListing == "^6^7^8%2%3%4%9"

QuestionReason == "|3~0~1%5%4%6%7|9%9"

\* the texts analyzeQuestion is given
QuestionTexts ==
  {QuestionDefinition, QuestionListing, QuestionReason}
    \cup {Join(phrases, " ") : phrases \in SeqsUpTo(QuestionPhrases, MaxPhrases)}

\* what analyzeQuestion returns for each of the texts, computed once
QuestionTypes == [question \in QuestionTexts |-> analyzeQuestion(question)]

\* the queries: a term of the texts, terms of the articles only, terms of no
\* text, and a term of the texts beside a word that names a property of {}
Queries == {"RWA", "AI finance", "the metaverse", "RWA constructor"}

TopKs == {1, 5}

\* the ids findSimilar is asked for: of articles of the scenario, and of none
SimilarIds == {"a", "b", "c", "x"}

----------------------------------------------------------------------------
(* The calls on one SemanticSearch and its vectorizer *)

NoError == "none"

EmptyCorpus == "EmptyCorpus"

\* the TypeError of a property read on undefined
TypeError == "TypeError"

ErrorOf(threw) == IF threw THEN EmptyCorpus ELSE NoError

\* what `last` records of a call: the operation, its argument, whether the
\* vectorizer was fitted when it was made, the error thrown and the value returned
Call(op, arg, error, result) ==
  [op |-> op, arg |-> arg, wasFitted |-> fitted, error |-> error, result |-> result]

(* The VectorStore: its calls run as far as their next await and are then   *)
(* resumed one at a time when what they wait for is done                    *)

\* the most calls started on the store
MaxCalls == 2

\* the ids of the documents the index file holds before any call
SavedDocuments == {"o1", "o2"}

\* the calls made on the store: addDocument(id, ..), addDocuments([..]) and
\* removeDocument(id), each with the ids it writes or deletes
StoreCalls ==
  { [op |-> "addDocument", ids |-> {"n1"}],
    [op |-> "addDocument", ids |-> {"n2"}],
    [op |-> "addDocuments", ids |-> {"n2", "n3"}],
    [op |-> "removeDocument", ids |-> {"o2"}] }

\* the constructor: an index with no documents, not loaded; the index file
\* is there already
InitStore ==
  /\ index = {}
  /\ loaded = FALSE
  /\ indexFile = SavedDocuments
  /\ calls = <<>>

\* this.index.documents[id] = {..} for each id of an add, delete
\* this.index.documents[id] for a remove
mutate(docs, call) ==
  IF call.op = "removeDocument" THEN docs \ call.ids ELSE docs \cup call.ids

\* a call that has started: where it stands, and the data its readFile or
\* its writeFile carries
StartedCall(call, pc, unloaded) ==
  [op |-> call.op, ids |-> call.ids, pc |-> pc, data |-> {}, unloaded |-> unloaded]

\* the variables a step on the store leaves alone
appVars == <<documents, vocabulary, idf, vectors, fitted, ssArticles, qaArticles,
             corpus, graph>>

\* a call is made: `if (!this.loaded) await this.load()` runs load as far as
\* its `await this.ensureDataDir()`; on a loaded store the call changes the
\* index at once and runs save as far as its `await this.ensureDataDir()`
StartCall ==
  \E call \in StoreCalls :
    /\ Len(calls) < MaxCalls
    /\ IF loaded
         THEN /\ index' = mutate(index, call)
              /\ calls' = Append(calls, StartedCall(call, "save.ensureDataDir", FALSE))
         ELSE /\ index' = index
              /\ calls' = Append(calls, StartedCall(call, "load.ensureDataDir", TRUE))
    /\ UNCHANGED <<loaded, indexFile>>
    /\ UNCHANGED appVars
    /\ last' = Call(call.op, call.ids, NoError, <<>>)

\* load: ensureDataDir is done, fs.readFile is asked for the index file
LoadEnsureDataDir ==
  \E i \in 1..Len(calls) :
    /\ calls[i].pc = "load.ensureDataDir"
    /\ calls' = [calls EXCEPT ![i].pc = "load.readFile"]
    /\ UNCHANGED <<index, loaded, indexFile, last>>
    /\ UNCHANGED appVars

\* load: fs.readFile reads what the index file holds now
ReadFile ==
  \E i \in 1..Len(calls) :
    /\ calls[i].pc = "load.readFile"
    /\ calls' = [calls EXCEPT ![i].pc = "load.parse", ![i].data = indexFile]
    /\ UNCHANGED <<index, loaded, indexFile, last>>
    /\ UNCHANGED appVars

\* load resumes: this.index = JSON.parse(data); this.loaded = true; the call
\* that awaited load then changes the index and runs save as far as its
\* `await this.ensureDataDir()`
LoadParse ==
  \E i \in 1..Len(calls) :
    /\ calls[i].pc = "load.parse"
    /\ index' = mutate(calls[i].data, calls[i])
    /\ loaded' = TRUE
    /\ calls' = [calls EXCEPT ![i].pc = "save.ensureDataDir", ![i].data = {}]
    /\ UNCHANGED <<indexFile, last>>
    /\ UNCHANGED appVars

\* save resumes: JSON.stringify(this.index) is taken now and fs.writeFile is
\* asked to write it
SaveEnsureDataDir ==
  \E i \in 1..Len(calls) :
    /\ calls[i].pc = "save.ensureDataDir"
    /\ calls' = [calls EXCEPT ![i].pc = "save.writeFile", ![i].data = index]
    /\ UNCHANGED <<index, loaded, indexFile, last>>
    /\ UNCHANGED appVars

\* save: fs.writeFile writes the file, and the call resolves
WriteFile ==
  \E i \in 1..Len(calls) :
    /\ calls[i].pc = "save.writeFile"
    /\ indexFile' = calls[i].data
    /\ calls' = [calls EXCEPT ![i].pc = "resolved", ![i].data = {}]
    /\ UNCHANGED <<index, loaded, last>>
    /\ UNCHANGED appVars

NextStore ==
  \/ StartCall
  \/ LoadEnsureDataDir
  \/ ReadFile
  \/ LoadParse
  \/ SaveEnsureDataDir
  \/ WriteFile

SetVectorizer(v) ==
  /\ documents' = v.documents
  /\ vocabulary' = v.vocabulary
  /\ idf' = v.idf
  /\ vectors' = v.vectors
  /\ fitted' = v.fitted

Init ==
  /\ documents = <<>>
  /\ vocabulary = EmptyMap
  /\ idf = EmptyMap
  /\ vectors = <<>>
  /\ fitted = FALSE
  /\ ssArticles = EmptyMap
  /\ qaArticles = <<>>
  /\ corpus = <<>>
  /\ graph = EmptyMap
  /\ InitStore
  /\ last = [op |-> "new", arg |-> <<>>, wasFitted |-> FALSE, error |-> NoError,
             result |-> <<>>]

SetSemantic(ss) ==
  /\ SetVectorizer(ss.vectorizer)
  /\ ssArticles' = ss.articles

\* vectorizer.addDocument(id, text)
AddDocument ==
  \E id \in DocIds, text \in DocTexts :
    /\ Len(documents) < MaxDocs
    /\ SetVectorizer(addDocument(Vectorizer, id, text))
    /\ UNCHANGED storeVars
    /\ last' = Call("addDocument", <<id, text>>, NoError, <<>>)
    /\ UNCHANGED <<ssArticles, qaArticles, corpus, graph>>

\* vectorizer.fit()
Fit ==
  /\ SetVectorizer(fit(Vectorizer))
  /\ UNCHANGED storeVars
  /\ last' = Call("fit", <<>>, ErrorOf(fitThrows(Vectorizer)), <<>>)
  /\ UNCHANGED <<ssArticles, qaArticles, corpus, graph>>

\* w = new TFIDFVectorizer(); w.import(vectorizer.export()): the calls go to
\* w from here on
Restore ==
  /\ SetVectorizer(import(export(Vectorizer)))
  /\ UNCHANGED storeVars
  /\ last' = Call("import", Vectorizer, NoError, import(export(Vectorizer)))
  /\ UNCHANGED <<ssArticles, qaArticles, corpus, graph>>

\* vectorizer.getStats()
GetStats ==
  /\ last' = Call("getStats", <<>>,
                  IF getStatsThrows(Vectorizer) THEN TypeError ELSE NoError,
                  getStats(Vectorizer))
  /\ UNCHANGED storeVars
  /\ UNCHANGED <<documents, vocabulary, idf, vectors, fitted, ssArticles, qaArticles,
                 corpus, graph>>

\* vectorizer.search(query, topK)
Search ==
  \E query \in Queries, topK \in TopKs :
    /\ SetVectorizer(searchFit(Vectorizer))
    /\ UNCHANGED storeVars
    /\ last' = Call("search", <<query, topK>>, ErrorOf(searchThrows(Vectorizer)),
                    search(Vectorizer, query, topK))
    /\ UNCHANGED <<ssArticles, qaArticles, corpus, graph>>

\* semanticSearch.indexArticles(batch), while the vectorizer holds no more than
\* limit documents
IndexBatch(batch, limit) ==
  /\ Len(documents) + Len(batch) <= limit
  /\ SetSemantic(indexArticles(Semantic, batch))
  /\ UNCHANGED storeVars
  /\ last' = Call("indexArticles", batch,
                  ErrorOf(indexArticlesThrows(Semantic, batch)), <<>>)
  /\ UNCHANGED <<qaArticles, corpus, graph>>

IndexArticles == \E batch \in Batches : IndexBatch(batch, MaxDocs)

\* semanticSearch.search(query), with the default options
SemanticSearchCall ==
  \E query \in Queries :
    /\ SetSemantic(semanticSearchFit(Semantic))
    /\ UNCHANGED storeVars
    /\ last' = Call("semanticSearch", <<query, 5>>,
                    ErrorOf(semanticSearchThrows(Semantic)),
                    semanticSearch(Semantic, query, 5, MinScore))
    /\ UNCHANGED <<qaArticles, corpus, graph>>

\* semanticSearch.findSimilar(articleId, topK): it searches, and so fits, only
\* when the article is indexed
FindSimilar ==
  \E articleId \in SimilarIds, topK \in TopKs :
    /\ SetSemantic(IF articleId \in DOMAIN ssArticles THEN semanticSearchFit(Semantic)
                   ELSE Semantic)
    /\ UNCHANGED storeVars
    /\ last' = Call("findSimilar", <<articleId, topK>>,
                    ErrorOf(articleId \in DOMAIN ssArticles
                              /\ semanticSearchThrows(Semantic)),
                    findSimilar(Semantic, articleId, topK))
    /\ UNCHANGED <<qaArticles, corpus, graph>>

\* qaEngine.loadArticles(batch): this.articles is assigned before indexArticles
\* runs, insights.setArticles after it (not at all when it throws)
LoadBatch(batch, limit) ==
  /\ Len(documents) + Len(batch) <= limit
  /\ qaArticles' = batch
  /\ SetSemantic(indexArticles(Semantic, batch))
  /\ corpus' = IF indexArticlesThrows(Semantic, batch) THEN corpus ELSE batch
  /\ graph' = IF indexArticlesThrows(Semantic, batch) THEN graph ELSE EmptyMap
  /\ UNCHANGED storeVars
  /\ last' = Call("loadArticles", batch,
                  ErrorOf(indexArticlesThrows(Semantic, batch)), <<>>)

LoadArticles == \E batch \in Batches : LoadBatch(batch, MaxDocs)

\* this.articles of the TrendAnalyzer after a call; this.articles of the
\* QAEngine is the same array unless loadArticles threw
SetCorpus(articles) ==
  /\ corpus' = articles
  /\ qaArticles' = IF qaArticles = corpus THEN articles ELSE qaArticles

\* trendAnalyzer.buildTimeline(tag)
BuildTimeline ==
  \E tag \in TrendTags :
    /\ SetCorpus(buildTimelineArticles(corpus, tag))
    /\ UNCHANGED storeVars
    /\ last' = Call("buildTimeline", tag, NoError, buildTimeline(corpus, tag))
    /\ UNCHANGED <<documents, vocabulary, idf, vectors, fitted, ssArticles, graph>>

\* trendAnalyzer.analyzeTrend(tag)
AnalyzeTrend ==
  \E tag \in TrendTags :
    /\ SetCorpus(buildTimelineArticles(corpus, tag))
    /\ UNCHANGED storeVars
    /\ last' = Call("analyzeTrend", tag, NoError, analyzeTrend(corpus, tag))
    /\ UNCHANGED <<documents, vocabulary, idf, vectors, fitted, ssArticles, graph>>

\* trendAnalyzer.findHotTopics()
FindHotTopics ==
  /\ UNCHANGED storeVars
  /\ last' = Call("findHotTopics", <<>>, NoError, findHotTopics(corpus, RecentDays))
  /\ UNCHANGED <<documents, vocabulary, idf, vectors, fitted, ssArticles,
                 qaArticles, corpus, graph>>

\* trendAnalyzer.findEmergingTopics()
FindEmergingTopics ==
  /\ UNCHANGED storeVars
  /\ last' = Call("findEmergingTopics", <<>>, NoError, findEmergingTopics(corpus))
  /\ UNCHANGED <<documents, vocabulary, idf, vectors, fitted, ssArticles,
                 qaArticles, corpus, graph>>

\* connectionDiscovery.buildConnectionGraph()
BuildConnectionGraph ==
  \E g \in {buildConnectionGraph(corpus, GraphMinScore)} :
    /\ graph' = g
    /\ UNCHANGED storeVars
    /\ last' = Call("buildConnectionGraph", <<>>, NoError, g)
    /\ UNCHANGED <<documents, vocabulary, idf, vectors, fitted, ssArticles,
                   qaArticles, corpus>>

\* connectionDiscovery.buildConnectionGraph(minScore)
BuildConnectionGraphAt ==
  \E minScore \in Thresholds :
    \E g \in {buildConnectionGraph(corpus, minScore)} :
      /\ graph' = g
      /\ UNCHANGED storeVars
      /\ last' = Call("buildConnectionGraphAt", minScore, NoError, g)
      /\ UNCHANGED <<documents, vocabulary, idf, vectors, fitted, ssArticles,
                     qaArticles, corpus>>

\* connectionDiscovery.findConnections(articleId, topK)
FindConnections ==
  \E articleId \in ConnectionIds, topK \in TopKs :
    /\ graph' = findConnectionsGraph(corpus, graph, articleId)
    /\ UNCHANGED storeVars
    /\ last' = Call("findConnections", <<articleId, topK>>, NoError,
                    findConnections(corpus, graph, articleId, topK))
    /\ UNCHANGED <<documents, vocabulary, idf, vectors, fitted, ssArticles,
                   qaArticles, corpus>>

\* connectionDiscovery.findClusters()
FindClusters ==
  \E g \in {buildConnectionGraph(corpus, ClusterMinScore)} :
    /\ graph' = g
    /\ UNCHANGED storeVars
    /\ last' = Call("findClusters", <<>>, NoError, clustersOf(corpus, g))
    /\ UNCHANGED <<documents, vocabulary, idf, vectors, fitted, ssArticles,
                   qaArticles, corpus>>

\* connectionDiscovery.setArticles(articles)
SetArticles ==
  \E articles \in ConnectionCorpora :
    /\ corpus' = articles
    /\ graph' = EmptyMap
    /\ UNCHANGED storeVars
    /\ last' = Call("setArticles", articles, NoError, <<>>)
    /\ UNCHANGED <<documents, vocabulary, idf, vectors, fitted, ssArticles, qaArticles>>

\* connectionDiscovery.findConnectionsForNewArticle(newArticle)
FindConnectionsForNewArticle ==
  \E newArticle \in Candidates :
    /\ UNCHANGED storeVars
    /\ last' = Call("findConnectionsForNewArticle", newArticle, NoError,
                    findConnectionsForNewArticle(corpus, newArticle))
    /\ UNCHANGED <<documents, vocabulary, idf, vectors, fitted, ssArticles,
                   qaArticles, corpus, graph>>

\* insightGenerator.generateTopicInsights(tag)
GenerateTopicInsights ==
  \E tag \in TrendTags :
    /\ SetCorpus(generateTopicInsightsArticles(corpus, tag))
    /\ UNCHANGED storeVars
    /\ last' = Call("generateTopicInsights", tag, NoError,
                    generateTopicInsights(corpus, tag))
    /\ UNCHANGED <<documents, vocabulary, idf, vectors, fitted, ssArticles, graph>>

\* insightGenerator.generateCrossArticleInsights()
GenerateCrossArticleInsights ==
  /\ graph' = crossArticleGraph(corpus, graph)
  /\ UNCHANGED storeVars
  /\ last' = Call("generateCrossArticleInsights", <<>>, NoError,
                  generateCrossArticleInsights(corpus))
  /\ UNCHANGED <<documents, vocabulary, idf, vectors, fitted, ssArticles,
                 qaArticles, corpus>>

\* insightGenerator.generateWeeklyInsights()
GenerateWeeklyInsights ==
  /\ UNCHANGED storeVars
  /\ last' = Call("generateWeeklyInsights", <<>>, NoError, generateWeeklyInsights(corpus))
  /\ UNCHANGED <<documents, vocabulary, idf, vectors, fitted, ssArticles,
                 qaArticles, corpus, graph>>

\* qaEngine.answer(question)
Answer ==
  \E question \in Questions :
    /\ SetSemantic(semanticSearchFit(Semantic))
    /\ UNCHANGED storeVars
    /\ last' = Call("answer", question, ErrorOf(semanticSearchThrows(Semantic)),
                    IF semanticSearchThrows(Semantic) THEN <<>>
                    ELSE answer(Semantic, question))
    /\ UNCHANGED <<qaArticles, corpus, graph>>

\* semanticSearch.searchWithContext(question), with the default topK
SearchWithContext ==
  \E question \in Questions :
    /\ SetSemantic(semanticSearchFit(Semantic))
    /\ UNCHANGED storeVars
    /\ last' = Call("searchWithContext", question,
                    ErrorOf(semanticSearchThrows(Semantic)),
                    IF semanticSearchThrows(Semantic) THEN <<>>
                    ELSE searchWithContext(Semantic, question, ContextTopK))
    /\ UNCHANGED <<qaArticles, corpus, graph>>

\* insightGenerator.deduplicatePoints(points)
DeduplicatePoints ==
  \E points \in PointLists :
    /\ UNCHANGED storeVars
    /\ last' = Call("deduplicatePoints", points, NoError, UniquePoints[points])
    /\ UNCHANGED <<documents, vocabulary, idf, vectors, fitted, ssArticles,
                   qaArticles, corpus, graph>>

\* tokenize(text)
Tokenize ==
  \E text \in TokenizeTexts :
    /\ UNCHANGED storeVars
    /\ last' = Call("tokenize", text, NoError, Tokenized[text])
    /\ UNCHANGED <<documents, vocabulary, idf, vectors, fitted, ssArticles,
                   qaArticles, corpus, graph>>

\* qaEngine.analyzeQuestion(question)
AnalyzeQuestion ==
  \E question \in QuestionTexts :
    /\ UNCHANGED storeVars
    /\ last' = Call("analyzeQuestion", question, NoError, QuestionTypes[question])
    /\ UNCHANGED <<documents, vocabulary, idf, vectors, fitted, ssArticles,
                   qaArticles, corpus, graph>>

\* semanticSearch.indexArticles(batch) with the articles of the scenario
IndexScenario == \E batch \in ScenarioBatches : IndexBatch(batch, MaxIndexed)

\* qaEngine.loadArticles(batch) with the articles a QAEngine is asked about
LoadAnswerArticles == \E batch \in AnswerBatches : LoadBatch(batch, MaxDocs)

\* connectionDiscovery.calculateRelation(article1, article2)
CalculateRelation ==
  \E article1 \in RelationPool, article2 \in RelationPool :
    /\ UNCHANGED storeVars
    /\ last' = Call("calculateRelation", <<article1, article2>>, NoError,
                    calculateRelation(article1, article2))
    /\ UNCHANGED <<documents, vocabulary, idf, vectors, fitted, ssArticles,
                   qaArticles, corpus, graph>>

\* jaccardSimilarity(set1, set2)
JaccardSimilarity ==
  \E set1 \in SUBSET JaccardTokens, set2 \in SUBSET JaccardTokens :
    /\ UNCHANGED storeVars
    /\ last' = Call("jaccardSimilarity", <<set1, set2>>, NoError,
                    jaccardSimilarity(set1, set2))
    /\ UNCHANGED <<documents, vocabulary, idf, vectors, fitted, ssArticles,
                   qaArticles, corpus, graph>>

Next ==
  \/ AddDocument
  \/ Fit
  \/ Search
  \/ IndexArticles
  \/ SemanticSearchCall
  \/ LoadArticles

Spec == Init /\ [][Next]_vars

\* the calls on a SemanticSearch that is used only through its own methods
NextSemantic ==
  \/ IndexArticles
  \/ SemanticSearchCall
  \/ LoadArticles

SpecSemantic == Init /\ [][NextSemantic]_vars

\* a TrendAnalyzer constructed with a corpus, and its queries
InitTrend ==
  /\ documents = <<>>
  /\ vocabulary = EmptyMap
  /\ idf = EmptyMap
  /\ vectors = <<>>
  /\ fitted = FALSE
  /\ ssArticles = EmptyMap
  /\ qaArticles = <<>>
  /\ corpus \in TrendCorpora
  /\ graph = EmptyMap
  /\ InitStore
  /\ last = [op |-> "new", arg |-> <<>>, wasFitted |-> FALSE, error |-> NoError,
             result |-> <<>>]

NextTrend ==
  \/ BuildTimeline
  \/ AnalyzeTrend
  \/ FindHotTopics
  \/ FindEmergingTopics

SpecTrend == InitTrend /\ [][NextTrend]_vars

\* a QAEngine: loadArticles, and the queries on what it loaded
NextQuery ==
  \/ LoadArticles
  \/ BuildTimeline
  \/ AnalyzeTrend
  \/ FindHotTopics
  \/ FindEmergingTopics
  \/ BuildConnectionGraph
  \/ FindClusters
  \/ GenerateTopicInsights
  \/ GenerateCrossArticleInsights
  \/ GenerateWeeklyInsights
  \/ Answer

SpecQuery == Init /\ [][NextQuery]_vars

\* a SemanticSearch that indexes the articles of the scenario
NextScenario ==
  \/ IndexScenario
  \/ SemanticSearchCall
  \/ FindSimilar

SpecScenario == Init /\ [][NextScenario]_vars

\* a QAEngine that is loaded and asked
NextAnswer ==
  \/ LoadAnswerArticles
  \/ SearchWithContext
  \/ Answer

SpecAnswer == Init /\ [][NextAnswer]_vars

\* a ConnectionDiscovery: setArticles, the graph, the clusters and the preview
NextConnections ==
  \/ SetArticles
  \/ BuildConnectionGraph
  \/ BuildConnectionGraphAt
  \/ FindConnections
  \/ FindClusters
  \/ FindConnectionsForNewArticle

SpecConnections == Init /\ [][NextConnections]_vars

\* the tokenizer
NextTokenize == Tokenize

SpecTokenize == Init /\ [][NextTokenize]_vars

\* the de-duplication of key points
NextPoints == DeduplicatePoints

SpecPoints == Init /\ [][NextPoints]_vars

\* the classification of questions
NextQuestion == AnalyzeQuestion

SpecQuestion == Init /\ [][NextQuestion]_vars

\* the relation of two articles and the Jaccard similarity of two sets
NextRelation ==
  \/ CalculateRelation
  \/ JaccardSimilarity

SpecRelation == Init /\ [][NextRelation]_vars

\* a vectorizer that is filled, fitted, searched, and restored from its export
NextRestore ==
  \/ AddDocument
  \/ Fit
  \/ Search
  \/ Restore
  \/ GetStats

SpecRestore == Init /\ [][NextRestore]_vars

\* a VectorStore whose index file is there already, and the calls started on
\* it without awaiting one before the next
SpecStore == Init /\ [][NextStore]_vars

----------------------------------------------------------------------------
(* The vectorizer and the search index: C1 to C4 *)

\* the ids of a sequence of hits or articles
Ids(s) == [i \in 1..Len(s) |-> s[i].id]

NoRepeat(s) == \A i, j \in 1..Len(s) : s[i] = s[j] => i = j

\* C1: a second fit() with no addDocument in between leaves the vocabulary,
\* the IDF table and the result of every search as the first fit() left them.
C1_FitIdempotent ==
  [][(last'.op = "fit" /\ fitted /\ Len(documents) > 0) =>
       /\ vocabulary' = vocabulary
       /\ idf' = idf
       /\ \A q \in Queries, k \in TopKs :
            Rank(Vectorizer', q, k) = Rank(Vectorizer, q, k)]_vars

\* C2: after indexArticles(batch) or loadArticles(batch) the vectorizer is the
\* one a new SemanticSearch builds from that batch alone, with one document and
\* one vector per article of the batch, and no search returns an id twice.
C2_IndexIsLatestBatch ==
  /\ (last.op \in {"indexArticles", "loadArticles"} /\ last.error = NoError) =>
       /\ Vectorizer = indexArticles(NewSemanticSearch, last.arg).vectorizer
       /\ Ids(documents) = Ids(last.arg)
       /\ Ids(vectors) = Ids(last.arg)
  /\ last.op = "semanticSearch" => NoRepeat(Ids(last.result))

\* C3: addDocument leaves fitted false, a fit() that returns leaves it true, a
\* search on an unfitted vectorizer with a document leaves it true and returns
\* what search returns after fit(); fitted changes in no other way.
C3_FittedStateMachine ==
  [][/\ last'.op = "addDocument" => ~fitted'
     /\ (last'.op = "fit" /\ last'.error = NoError) => fitted'
     /\ (last'.op = "search" /\ ~fitted /\ Len(documents) > 0) =>
          /\ fitted'
          /\ last'.error = NoError
          /\ last'.result = search(fit(Vectorizer), last'.arg[1], last'.arg[2])
     /\ fitted' = (IF last'.op = "addDocument" THEN FALSE
                   ELSE IF last'.error = NoError THEN TRUE ELSE fitted)]_vars

\* a search fitted a vectorizer that held a document and found it
C3_Witness ==
  /\ last.op = "search"
  /\ ~last.wasFitted
  /\ fitted
  /\ Len(last.result) > 0

\* C4: fit() with no document raises EmptyCorpus and leaves documents,
\* vocabulary, IDF table, vectors and fitted (false) as they were; so does every
\* call that reaches fit with no document: search, indexArticles([]),
\* loadArticles([]).
C4_EmptyCorpus ==
  [][/\ (Len(documents) = 0 /\ last'.op \in {"fit", "search", "semanticSearch"}) =>
          last'.error = EmptyCorpus
     /\ (Len(documents) = 0 /\ last'.op \in {"indexArticles", "loadArticles"}
           /\ last'.arg = <<>>) =>
          last'.error = EmptyCorpus
     /\ last'.error = EmptyCorpus =>
          /\ Len(documents) = 0
          /\ ~fitted'
          /\ UNCHANGED <<documents, vocabulary, idf, vectors, fitted>>]_vars

\* fit() was called on a vectorizer without documents
C4_Witness ==
  /\ last.op = "fit"
  /\ last.error = EmptyCorpus
  /\ Len(documents) = 0
  /\ ~fitted

----------------------------------------------------------------------------
(* Trends: C5 and C6 *)

\* the articles of the corpus that the timeline of the tag holds
InTimeline(a, tag) == tag = "" \/ timelineMatches(a, tag)

RecentOf(tag) ==
  Cardinality({i \in 1..Len(corpus) :
                 /\ InTimeline(corpus[i], tag)
                 /\ corpus[i].savedAt > Now - RecentDays})

OlderOf(tag) ==
  Cardinality({i \in 1..Len(corpus) :
                 /\ InTimeline(corpus[i], tag)
                 /\ corpus[i].savedAt > Now - OlderDays
                 /\ corpus[i].savedAt <= Now - RecentDays})

\* C5: analyzeTrend(tag) returns new whenever the timeline of the tag holds
\* exactly one article, whatever the day it was saved.
C5_SingleArticleIsNew ==
  (last.op = "analyzeTrend" /\ last.result.articleCount = 1) =>
    last.result.trend = "new"

----------------------------------------------------------------------------
(* Relations: C7, C8 and C9 *)

\* a number between 0 and 1
InUnit(x) == ~IsNaN(x) /\ 0 <= x /\ x <= Milli

\* C7: for every pair of articles calculateRelation returns a totalScore, a
\* tagOverlap, a topicSimilarity and a keyPointSimilarity that are numbers
\* between 0 and 1, never NaN.
C7_RelationBounds ==
  last.op = "calculateRelation" =>
    /\ InUnit(last.result.totalScore)
    /\ InUnit(last.result.tagOverlap)
    /\ InUnit(last.result.topicSimilarity)
    /\ InUnit(last.result.keyPointSimilarity)

\* C8: jaccardSimilarity returns 0 for two empty sets and the size of the
\* intersection over the size of the union for all others, never NaN.
C8_JaccardGuard ==
  last.op = "jaccardSimilarity" =>
    /\ ~IsNaN(last.result)
    /\ last.result =
         (IF last.arg[1] \cup last.arg[2] = {} THEN 0
          ELSE (Cardinality(last.arg[1] \cap last.arg[2]) * Milli)
                 \div Cardinality(last.arg[1] \cup last.arg[2]))

\* C9, as the specification states it: calculateRelation(A,B) and
\* calculateRelation(B,A) have the same totalScore and the same sharedTags.
C9_Symmetric ==
  last.op = "calculateRelation" =>
    /\ last.result.totalScore = calculateRelation(last.arg[2], last.arg[1]).totalScore
    /\ last.result.sharedTags = calculateRelation(last.arg[2], last.arg[1]).sharedTags

\* C9, as the code has it: calculateRelation(A,B) and calculateRelation(B,A)
\* have the same totalScore (NaN for both when it is NaN for one) and the same
\* tags in sharedTags, each once, in the order of the tags of the first article.
C9_SymmetricUpToOrder ==
  last.op = "calculateRelation" =>
    /\ last.result.totalScore = calculateRelation(last.arg[2], last.arg[1]).totalScore
    /\ Range(last.result.sharedTags)
         = Range(calculateRelation(last.arg[2], last.arg[1]).sharedTags)
    /\ Len(last.result.sharedTags)
         = Len(calculateRelation(last.arg[2], last.arg[1]).sharedTags)
    /\ NoRepeat(last.result.sharedTags)
    /\ last.result.sharedTags
         = SelectSeq(Distinct(last.arg[1].tags),
                     LAMBDA t : t \in Range(last.result.sharedTags))

\* two articles share two tags that they list in different orders
C9_Witness ==
  /\ last.op = "calculateRelation"
  /\ Len(last.result.sharedTags) = 2
  /\ last.result.sharedTags # calculateRelation(last.arg[2], last.arg[1]).sharedTags
  /\ last.result.totalScore > 0

----------------------------------------------------------------------------
(* The corpus: C10 *)

QueryOps ==
  {"buildTimeline", "analyzeTrend", "findHotTopics", "findEmergingTopics",
   "buildConnectionGraph", "findClusters", "generateTopicInsights",
   "generateCrossArticleInsights", "answer"}

\* C10: no query of TrendAnalyzer, ConnectionDiscovery, InsightGenerator or
\* QAEngine changes the content or the order of the array of articles it was given.
C10_CorpusReadOnly ==
  [][last'.op \in QueryOps => corpus' = corpus]_vars

----------------------------------------------------------------------------
(* Queries and results: C11 to C13 *)

\* the keys of a query vector are terms of the vocabulary and its weights are
\* finite and positive
InVocabulary(queryVector, voc) ==
  /\ DOMAIN queryVector \subseteq DOMAIN voc
  /\ \A term \in DOMAIN queryVector :
       IsNumber(queryVector[term]) /\ queryVector[term] > 0

\* no term of the query is a term of the vocabulary
AllOutOfVocabulary(query, voc) ==
  \A term \in Range(preprocess(query).all) : term \notin DOMAIN voc

\* C11: the vector of a query made against a fitted vectorizer holds only terms
\* of the vocabulary, with finite positive weights; a search on a fitted
\* vectorizer raises no error and leaves vocabulary and IDF table as they were;
\* a query with no term of the vocabulary gets the empty list.
C11_OutOfVocabulary ==
  [][/\ (last'.op = "search" /\ last'.error = NoError) =>
          /\ InVocabulary(transformQuery(Vectorizer', last'.arg[1]), vocabulary')
          /\ AllOutOfVocabulary(last'.arg[1], vocabulary') => last'.result = <<>>
     /\ (last'.op = "search" /\ fitted) =>
          /\ last'.error = NoError
          /\ vocabulary' = vocabulary
          /\ idf' = idf]_vars

\* the score of each document of the fitted vectorizer against the last query
ScoresOfLast ==
  [i \in 1..Len(vectors) |->
     cosineOf(transformQuery(Vectorizer, last.arg[1]), vectors[i].vector)]

\* the hits are documents with their scores, positive and in non-increasing
\* order; every document that scores more than the last hit is a hit; when
\* fewer than topK are returned, every document with a positive score is one
RankedShape(hits, scores, topK) ==
  /\ Len(hits) <= topK
  /\ \A j \in 1..Len(hits) :
       /\ IsNumber(hits[j].score) /\ hits[j].score > 0
       /\ \E i \in 1..Len(scores) : vectors[i].id = hits[j].id /\ scores[i] = hits[j].score
       /\ j > 1 => hits[j - 1].score >= hits[j].score
  /\ \A x \in Range(scores) :
       (Len(hits) = 0 \/ x > hits[Len(hits)].score \/ Len(hits) < topK) /\ x > 0 =>
         Cardinality({i \in 1..Len(scores) : scores[i] = x})
           = Cardinality({j \in 1..Len(hits) : hits[j].score = x})
  /\ (Len(hits) < topK \/ topK = 0) =>
       Len(hits) = Cardinality({i \in 1..Len(scores) : scores[i] > 0})

\* C12: search returns at most topK hits, each with a score above 0, in
\* non-increasing order of score, and no document that is left out scores more
\* than a hit.
C12_ResultShape ==
  (last.op = "search" /\ last.error = NoError) =>
    RankedShape(last.result, ScoresOfLast, last.arg[2])

\* a search for one hit returned the better of two documents that both score
C12_Witness ==
  /\ last.op = "search"
  /\ last.arg[2] = 1
  /\ Len(last.result) = 1
  /\ \E i \in 1..Len(vectors) :
       ScoresOfLast[i] > 0 /\ ScoresOfLast[i] < last.result[1].score

\* the documents of the vectorizer that hold a term of the query
SharesTerm(doc, query) ==
  Range(doc.tokens) \cap Range(preprocess(query).all) # {}

\* C13: every hit of a search is a document that shares a term, unigram or
\* bigram, with the query; with the articles a, b and c indexed, the query
\* "RWA" returns a first and does not return c.
C13_SharedVocabulary ==
  (last.op = "semanticSearch" /\ last.error = NoError) =>
    /\ \A j \in 1..Len(last.result) :
         \E i \in 1..Len(documents) :
           /\ documents[i].id = last.result[j].id
           /\ SharesTerm(documents[i], last.arg[1])
    /\ (Range(Ids(documents)) = {"a", "b", "c"} /\ Len(documents) = 3
          /\ last.arg[1] = "RWA") =>
         /\ Len(last.result) > 0
         /\ last.result[1].id = "a"
         /\ \A j \in 1..Len(last.result) : last.result[j].id # "c"

\* the query "RWA" on the three articles returned a, then b
C13_Witness ==
  /\ last.op = "semanticSearch"
  /\ last.arg[1] = "RWA"
  /\ Ids(documents) = <<"c", "b", "a">>
  /\ Ids(last.result) = <<"a", "b">>

----------------------------------------------------------------------------
(* Questions and answers: C14 to C16 *)

\* C14: searchWithContext reports hasRelevantInfo exactly when it has a result
\* and the score of the first, the highest, is above 0.15; hits that reach 0.1
\* but not more than 0.15 give false.
C14_RelevanceGate ==
  (last.op = "searchWithContext" /\ last.error = NoError) =>
    /\ last.result.hasRelevantInfo
         = (/\ Len(last.result.results) > 0
            /\ last.result.results[1].relevance > RelevanceGate)
    /\ \A j \in 1..Len(last.result.results) :
         /\ last.result.results[j].relevance >= MinScore
         /\ last.result.results[j].relevance <= last.result.results[1].relevance

\* searchWithContext had a hit between 0.1 and 0.15 and reported no relevant
\* information
C14_Witness ==
  /\ last.op = "searchWithContext"
  /\ last.error = NoError
  /\ Len(last.result.results) > 0
  /\ last.result.results[1].relevance >= MinScore
  /\ last.result.results[1].relevance <= RelevanceGate
  /\ ~last.result.hasRelevantInfo

\* C15: answer(question) searches with the question as it was asked, returns
\* no_relevant_info exactly when searchWithContext reports no relevant
\* information and answered, with sources, otherwise; it has no other status.
C15_AnswerStatus ==
  (last.op = "answer" /\ last.error = NoError) =>
    /\ last.result.status \in {"answered", "no_relevant_info"}
    /\ last.result.question = last.arg
    /\ (last.result.status = "no_relevant_info")
         = ~searchWithContext(Semantic, last.arg, ContextTopK).hasRelevantInfo
    /\ last.result.status = "answered" =>
         /\ Len(last.result.sources) > 0
         /\ last.result.sources
              = sourcesOf(searchWithContext(Semantic, last.arg, ContextTopK).results)

\* a question found a hit that did not pass the gate, and was not answered
C15_Witness ==
  /\ last.op = "answer"
  /\ last.error = NoError
  /\ last.result.status = "no_relevant_info"
  /\ Len(searchWithContext(Semantic, last.arg, ContextTopK).results) > 0

\* the types of analyzeQuestion in the order they are declared
TypeOrder ==
  <<"definition", "comparison", "listing", "reason", "summary", "trend", "opinion">>

\* one of the patterns of the i-th type matches the lower-cased question
TypeMatches(i, question) ==
  \E pattern \in QuestionPatterns[i].patterns :
    regexTest(toLowerCase(question), pattern)

----------------------------------------------------------------------------
(* Clusters, the corpus without articles and trends: C17 to C19 *)

\* C17: every cluster findClusters() returns has at least two members, and
\* they are different articles.
C17_NoSingletonCluster ==
  last.op = "findClusters" =>
    \A c \in 1..Len(last.result) :
      /\ Len(last.result[c]) >= 2
      /\ NoRepeat(Ids(last.result[c]))

\* findClusters was called on articles some of which stand alone, and
\* returned a cluster
C17_Witness ==
  /\ last.op = "findClusters"
  /\ Len(last.result) >= 1
  /\ \E i \in 1..Len(corpus) :
       \A c \in 1..Len(last.result) : corpus[i].id \notin Range(Ids(last.result[c]))

\* the operations that fit the vectorizer before they do anything else
FittingOps == {"loadArticles", "answer"}

\* C18: with no article, analyzeTrend returns no_data, findHotTopics and
\* findEmergingTopics return empty lists, buildConnectionGraph an empty graph,
\* findClusters no cluster, generateCrossArticleInsights insufficient_data and
\* generateWeeklyInsights a status; an operation raises only when it fits the
\* vectorizer on no document.
C18_EmptyCorpus ==
  /\ Len(corpus) = 0 =>
       /\ last.op = "analyzeTrend" =>
            last.result.trend = "no_data" /\ last.result.articleCount = 0
       /\ last.op \in {"findHotTopics", "findEmergingTopics", "findClusters"} =>
            last.result = <<>>
       /\ last.op = "buildConnectionGraph" => last.result = EmptyMap /\ graph = EmptyMap
       /\ last.op = "generateCrossArticleInsights" =>
            last.result.status = "insufficient_data"
       /\ last.op = "generateWeeklyInsights" => last.result.status = "no_activity"
  /\ last.error # NoError =>
       /\ last.op \in FittingOps
       /\ last.error = EmptyCorpus
       /\ Len(documents) = 0

\* the weekly insights were asked of an InsightGenerator that holds no article
C18_Witness ==
  /\ Len(corpus) = 0
  /\ last.op = "generateWeeklyInsights"
  /\ last.error = NoError
  /\ last.result.status = "no_activity"

\* the trends analyzeTrend names
Trends == {"rising", "stable", "declining", "new", "no_data"}

\* C19: analyzeTrend(tag) returns one of rising, stable, declining, new and
\* no_data; it returns no_data, with articleCount 0, exactly when no article
\* matches the tag; on a timeline that is not empty recentCount + olderCount
\* is at most articleCount.
C19_TrendDomain ==
  last.op = "analyzeTrend" =>
    /\ last.result.trend \in Trends
    /\ (last.result.trend = "no_data")
         = (\A i \in 1..Len(corpus) : ~InTimeline(corpus[i], last.arg))
    /\ (last.result.articleCount = 0) = (last.result.trend = "no_data")
    /\ last.result.articleCount > 0 =>
         /\ last.result.articleCount
              = Cardinality({i \in 1..Len(corpus) : InTimeline(corpus[i], last.arg)})
         /\ last.result.recentCount + last.result.olderCount
              <= last.result.articleCount

\* analyzeTrend was asked for a tag that no article of a corpus of three has
C19_Witness ==
  /\ last.op = "analyzeTrend"
  /\ last.arg # ""
  /\ Len(corpus) = 3
  /\ last.result.trend = "no_data"

----------------------------------------------------------------------------
(* The preview of connections: C20 *)

\* the entry stands for an article of the set, with the score of its relation
\* to the new article
IsConnectionOf(entry, articles, newArticle) ==
  \E i \in 1..Len(articles) :
    /\ entry.article.id = articles[i].id
    /\ entry.article.title = articles[i].title
    /\ entry.score = calculateRelation(newArticle, articles[i]).totalScore

\* C20: findConnectionsForNewArticle(candidate) leaves the connection graph and
\* the articles as they were and returns at most 5 entries, each of an article
\* of the set whose relation to the candidate scores above 0.1, in
\* non-increasing order of score.
C20_PreviewOnly ==
  [][last'.op = "findConnectionsForNewArticle" =>
       /\ graph' = graph
       /\ corpus' = corpus
       /\ Len(last'.result) <= 5
       /\ \A k \in 1..Len(last'.result) :
            /\ IsConnectionOf(last'.result[k], corpus, last'.arg)
            /\ last'.result[k].score > 100
            /\ k > 1 => last'.result[k].score <= last'.result[k - 1].score]_vars

\* a preview on six articles with a graph built returned five connections,
\* not in the order of the articles
C20_Witness ==
  /\ last.op = "findConnectionsForNewArticle"
  /\ Len(corpus) = 6
  /\ graph # EmptyMap
  /\ Len(last.result) = 5
  /\ last.result[1].score > last.result[5].score
  /\ last.result[1].article.id # corpus[1].id

----------------------------------------------------------------------------
(* Key points: C21 *)

\* r is p with some of its entries left out
IsSubsequence(r, p) ==
  \E I \in SUBSET (1..Len(p)) :
    r = [k \in 1..Cardinality(I) |-> p[Ascending(I)[k]]]

\* the first entry of p with the prefix of p[i]
FirstWithPrefix(p, i) ==
  p[CHOOSE j \in 1..i :
      /\ normalized(p[j]) = normalized(p[i])
      /\ \A h \in 1..(j - 1) : normalized(p[h]) # normalized(p[i])]

\* C21: deduplicatePoints(points) returns a subsequence of points in which no
\* two entries have the same lower-cased prefix of 50 characters; for every
\* prefix it keeps the first point that has it; applied to what it returned it
\* changes nothing.
C21_Deduplicate ==
  last.op = "deduplicatePoints" =>
    /\ IsSubsequence(last.result, last.arg)
    /\ \A i, j \in 1..Len(last.result) :
         normalized(last.result[i]) = normalized(last.result[j]) => i = j
    /\ \A i \in 1..Len(last.arg) :
         FirstWithPrefix(last.arg, i) \in Range(last.result)
    /\ deduplicatePoints(last.result) = last.result

\* two spellings of a point and two points that part after 50 characters were
\* given, and the first of each pair was kept
C21_Witness ==
  /\ last.op = "deduplicatePoints"
  /\ Len(last.arg) = 3
  /\ Len(last.result) = 2
  /\ \E i, j \in 1..3 : i < j /\ last.arg[i] # last.arg[j]
                          /\ normalized(last.arg[i]) = normalized(last.arg[j])
                          /\ Len(last.arg[i]) > 50

----------------------------------------------------------------------------
(* Similar articles: C22 *)

\* C22: findSimilar(id, topK) returns at most topK results, none of them the
\* article it was asked for; for an id that is not indexed it returns the
\* empty list.
C22_ExcludesSource ==
  last.op = "findSimilar" =>
    /\ last.error = NoError
    /\ Len(last.result) <= last.arg[2]
    /\ \A k \in 1..Len(last.result) : last.result[k].id # last.arg[1]
    /\ last.arg[1] \notin DOMAIN ssArticles => last.result = <<>>

\* findSimilar was asked for one similar article of an indexed article whose
\* own text is the best match of the search, and returned another article
C22_Witness ==
  /\ last.op = "findSimilar"
  /\ last.arg[1] \in DOMAIN ssArticles
  /\ last.arg[2] = 1
  /\ Len(last.result) = 1
  /\ similarHits(Semantic, last.arg[1], 1)[1].id = last.arg[1]

----------------------------------------------------------------------------
(* The vocabulary: C23 *)

\* C23: after every fit() the vocabulary gives each term of the documents an
\* index of its own, the indices being 0..|V|-1, and a term keeps the index
\* it had before the fit.
C23_VocabularyIndices ==
  [][(last'.op = "fit" /\ last'.error = NoError) =>
       /\ DOMAIN vocabulary' = Range(DocFreqTerms(documents'))
       /\ \A t, u \in DOMAIN vocabulary' : vocabulary'[t] = vocabulary'[u] => t = u
       /\ {vocabulary'[t] : t \in DOMAIN vocabulary'}
            = 0..(Cardinality(DOMAIN vocabulary') - 1)
       /\ \A t \in DOMAIN vocabulary : vocabulary'[t] = vocabulary[t]]_vars

----------------------------------------------------------------------------
(* The connection graph: C24 to C26 *)

\* the ids of the articles other than a whose relation to a scores m or more
Related(articles, a, m) ==
  {articles[j].id : j \in {k \in 1..Len(articles) :
      /\ articles[k].id # a.id
      /\ Ge(calculateRelation(a, articles[k]).totalScore, m)}}

TargetIds(list) == [k \in 1..Len(list) |-> list[k].targetId]

\* C24: after buildConnectionGraph(m) on articles with unique ids the graph has
\* one list per article; the list of A names exactly the other articles whose
\* relation to A scores m or more, each once and never A; every list is in
\* non-increasing order of score; B is in the list of A exactly when A is in
\* the list of B.
C24_GraphContent ==
  last.op = "buildConnectionGraphAt" =>
    /\ graph = last.result
    /\ DOMAIN graph = Range(Ids(corpus))
    /\ \A i \in 1..Len(corpus) :
         /\ Range(TargetIds(graph[corpus[i].id])) = Related(corpus, corpus[i], last.arg)
         /\ NoRepeat(TargetIds(graph[corpus[i].id]))
         /\ \A k \in 2..Len(graph[corpus[i].id]) :
              graph[corpus[i].id][k].score <= graph[corpus[i].id][k - 1].score
    /\ \A a, b \in DOMAIN graph :
         (b \in Range(TargetIds(graph[a]))) = (a \in Range(TargetIds(graph[b])))

\* a graph was built in which an article has two neighbours of different
\* scores, listed in another order than the articles, and lacks a third whose
\* relation is below the threshold
C24_Witness ==
  /\ last.op = "buildConnectionGraphAt"
  /\ \E i \in 1..Len(corpus) :
       /\ Len(graph[corpus[i].id]) >= 2
       /\ Len(graph[corpus[i].id]) < Len(corpus) - 1
       /\ graph[corpus[i].id][1].score > graph[corpus[i].id][2].score
       /\ \E j, k \in 1..Len(corpus) :
            /\ j < k
            /\ graph[corpus[i].id][1].targetId = corpus[k].id
            /\ graph[corpus[i].id][2].targetId = corpus[j].id

\* the pairs of ids of articles whose relation scores above 0.3
Links(articles) ==
  {p \in Range(Ids(articles)) \X Range(Ids(articles)) :
     \E i, j \in 1..Len(articles) :
       /\ articles[i].id = p[1]
       /\ articles[j].id = p[2]
       /\ i # j
       /\ Gt(calculateRelation(articles[i], articles[j]).totalScore, ClusterLinkScore)}

\* the ids reached, and those one link away from them
Expand(links, ids, reached) ==
  reached \cup {b \in ids : \E a \in reached : <<a, b>> \in links}

\* the ids a path of at most k links leads to from the ids reached
RECURSIVE Grow(_, _, _, _)
Grow(links, ids, reached, k) ==
  IF k = 0 THEN reached ELSE Grow(links, ids, Expand(links, ids, reached), k - 1)

\* the ids a path of links leads to from id, id itself included
Component(links, ids, id) == Grow(links, ids, {id}, Cardinality(ids))

\* the clusters are disjoint, hold ids of the articles only, and hold two
\* different ids together exactly when a path of links joins them
AreComponents(clusters, ids, links) ==
  /\ \A c, d \in 1..Len(clusters) :
       c # d => Range(Ids(clusters[c])) \cap Range(Ids(clusters[d])) = {}
  /\ \A c \in 1..Len(clusters) : Range(Ids(clusters[c])) \subseteq ids
  /\ \A a, b \in ids :
       a # b =>
         ((\E c \in 1..Len(clusters) : {a, b} \subseteq Range(Ids(clusters[c])))
            = (b \in Component(links, ids, a)))

\* C25: the clusters findClusters() returns are pairwise disjoint and hold
\* articles of the corpus only; two articles are in one cluster exactly when a
\* path of edges that score above 0.3 joins them.
C25_ConnectedComponents ==
  last.op = "findClusters" =>
    AreComponents(last.result, Range(Ids(corpus)), Links(corpus))

\* findClusters put two articles in one cluster that no edge joins, only a path
C25_Witness ==
  /\ last.op = "findClusters"
  /\ Len(last.result) = 1
  /\ Range(Ids(last.result[1])) = {"k1", "k2", "k3"}
  /\ <<"k1", "k3">> \notin Links(corpus)

\* C26: findConnections(articleId, topK) returns the topK highest-scoring
\* connections of the article among those that score 0.15 or more, whatever
\* was called before on the same articles.
C26_HistoryIndependent ==
  last.op = "findConnections" =>
    last.result
      = connectionsIn(buildConnectionGraph(corpus, GraphMinScore), last.arg[1], last.arg[2])

-----------------------------------------------------------------------------
(* The VectorStore: C27 *)

\* every call started has resolved, and each was started before the store
\* was loaded
AllResolved ==
  /\ Len(calls) > 1
  /\ \A i \in 1..Len(calls) : calls[i].pc = "resolved" /\ calls[i].unloaded

\* the ids the calls added, and the ids they removed
AddedIds == UNION {calls[i].ids : i \in {j \in 1..Len(calls) : calls[j].op # "removeDocument"}}

RemovedIds == UNION {calls[i].ids : i \in {j \in 1..Len(calls) : calls[j].op = "removeDocument"}}

\* C27: when several calls are started on a store that is not loaded and
\* whose index file is there, none awaited before the next is started, then
\* once all have resolved every added document is in the in-memory index and
\* in the saved file, with the documents the file held before (but for the
\* removed ones)
C27_NoLostUpdate ==
  AllResolved =>
    /\ AddedIds \cup (SavedDocuments \ RemovedIds) \subseteq index
    /\ AddedIds \cup (SavedDocuments \ RemovedIds) \subseteq indexFile

-----------------------------------------------------------------------------
(* Export and import: C28 *)

\* the calls that follow give the same on v and on w: getStats and search
\* return the same without raising, and after a further addDocument and fit
\* the IDF tables, the vectors and the rankings are the same
BehavesAlike(v, w) ==
  /\ ~getStatsThrows(w)
  /\ getStats(w) = getStats(v)
  /\ \A query \in Queries, topK \in TopKs : search(w, query, topK) = search(v, query, topK)
  /\ \A id \in DocIds, text \in DocTexts :
       LET v2 == fit(addDocument(v, id, text))
           w2 == fit(addDocument(w, id, text))
       IN /\ w2.idf = v2.idf
          /\ w2.vectors = v2.vectors
          /\ \A query \in Queries, topK \in TopKs :
               search(w2, query, topK) = search(v2, query, topK)

\* C28: a vectorizer restored by import(export()) from a fitted vectorizer
\* behaves like it: getStats and search return the same without raising, and
\* after the same further addDocument and fit both have the same IDF table,
\* vectors and rankings
C28_RoundTrip ==
  (last.op = "import" /\ last.arg.fitted) => BehavesAlike(last.arg, last.result)

-----------------------------------------------------------------------------
(* The timeline of a trend answer: C29 *)

\* the savedAt of the indexed article with the title
SavedAtOfTitle(title) ==
  LET id == CHOOSE i \in DOMAIN ssArticles : ssArticles[i].title = title
  IN ssArticles[id].savedAt

\* the answer of the last call is a trend answer with status answered
TrendAnswered ==
  /\ last.op = "answer"
  /\ last.error = NoError
  /\ last.result.status = "answered"
  /\ last.result.questionType = "trend"

\* C29: the timeline of an answered trend question lists the retrieved
\* articles in ascending order of their savedAt, each entry with the
\* article's savedAt as its date
C29_TrendTimeline ==
  TrendAnswered =>
    LET timeline == last.result.timeline
    IN /\ {timeline[i].title : i \in 1..Len(timeline)}
            = {last.result.sources[i].title : i \in 1..Len(last.result.sources)}
       /\ \A i \in 1..Len(timeline) : timeline[i].date = SavedAtOfTitle(timeline[i].title)
       /\ \A i, j \in 1..Len(timeline) :
            i < j => SavedAtOfTitle(timeline[i].title) <= SavedAtOfTitle(timeline[j].title)

-----------------------------------------------------------------------------
(* The tokenizer: C30 *)

\* what a character of the lower-cased text is
ClassOf(char) ==
  IF isChinese(char) THEN "chinese"
  ELSE IF char \in LowerSet THEN "english"
  ELSE IF char \in DigitSet THEN "number"
  ELSE "other"

\* the places where a token starts: an ideograph, or a letter or digit that
\* does not follow a character of its own kind
RunStarts(lower) ==
  {i \in 1..Len(lower) :
     /\ ClassOf(CharAt(lower, i)) # "other"
     /\ \/ ClassOf(CharAt(lower, i)) = "chinese"
        \/ i = 1
        \/ ClassOf(CharAt(lower, i - 1)) # ClassOf(CharAt(lower, i))}

\* where the token that starts at i ends: at i for an ideograph, else with
\* the last character of the run of its kind
RunEnd(lower, i) ==
  IF ClassOf(CharAt(lower, i)) = "chinese" THEN i
  ELSE CHOOSE j \in i..Len(lower) :
         /\ \A k \in i..j : ClassOf(CharAt(lower, k)) = ClassOf(CharAt(lower, i))
         /\ j = Len(lower) \/ ClassOf(CharAt(lower, j + 1)) # ClassOf(CharAt(lower, i))

\* the runs of a lower-cased text, in text order
Runs(lower) ==
  LET starts == RunStarts(lower)
      nth(n) == CHOOSE i \in starts : Cardinality({j \in starts : j < i}) = n - 1
  IN [n \in 1..Cardinality(starts) |-> SubSeq(lower, nth(n), RunEnd(lower, nth(n)))]

\* C30: tokenize returns, in text order, one token for each ideograph, each
\* maximal run of letters (in lower case) and each maximal run of digits of
\* the text; no token is empty, every other character separates and is
\* dropped, and a letter run and a digit run that touch are two tokens
C30_TokenizerOutput ==
  last.op = "tokenize" =>
    /\ last.result = Runs(toLowerCase(last.arg))
    /\ \A i \in 1..Len(last.result) : last.result[i] # ""
    /\ tokenize("abc123") = <<"abc", "123">>

\* a text of letters in both cases, digits, ideographs and other characters
\* is tokenized
C30_Witness ==
  /\ last.op = "tokenize"
  /\ last.arg = "RWA2024 #$-DeFi"
  /\ last.result = <<"rwa", "2024", "#", "$", "defi">>

====
